---- MODULE Spec2Model ----
(***************************************************************************)
(* Model of the file-synchronisation and patching engine of the Fallout    *)
(* London VR installer (src/installer.py, src/robocopy_methods.py):        *)
(*   - the tree copiers copy_directory_parallel,                           *)
(*     copy_directory_parallel_with_exclusions and                         *)
(*     copy_directory_with_progress;                                       *)
(*   - ESMPatcher.patch_fallout4_esm and its call from                     *)
(*     copy_fallout_data_with_smart_dlc / perform_installation;            *)
(*   - BA2Header.from_file and FalloutVRDowngrader;                        *)
(*   - the DLC resolver detect_dlc_in_both_games;                          *)
(*   - Step 2 of perform_update and merge_modlist_txt.                     *)
(*                                                                         *)
(* Names and paths are sequences of one-character strings, so that         *)
(* str.lower(), equality and the substring test `a in b` are computed.     *)
(* File sizes are counted in MiB.                                          *)
(***************************************************************************)
EXTENDS Integers, Sequences, FiniteSets, TLC

VARIABLES
    variant,        \* which copier runs: "parallel" | "exclusions" | "sequential"
    srcDir,         \* src_dir after normpath, a path string
    srcTree,        \* the files under src_dir in os.walk order; a file's id is its index
    excludeDirs,    \* exclude_dirs argument, a sequence of names
    excludeFiles,   \* exclude_files argument, a sequence of names
    maxWorkers,     \* size of the ThreadPoolExecutor
    cancel,         \* self.cancel_requested
    copyPc,         \* position of the coordinating thread
    manifest,       \* files_to_copy, a sequence of file ids
    nextTask,       \* index in manifest of the next task the pool starts
    wk,             \* per worker thread: its position and locals
    fut,            \* per file id: state of its future
    doneQ,          \* finished futures as_completed has still to yield, in completion order
    dest,           \* per file id: bytes present at its destination path, -1 if absent
    counter,        \* copied_counter._value (copied_size in the sequential copier)
    failed,         \* failed_files, a sequence of file ids
    filesCopied,    \* files_copied
    completedCount, \* completed_count
    uiLast,         \* last percentage handed to root.after, in 1/1000 percent; -1 if none
    outcome,        \* how the copy call ended
    faults,         \* injected I/O faults so far
    patchPc,        \* position inside patch_fallout4_esm
    esm,            \* content of Fallout4.esm ("absent" if missing)
    esmSize,        \* os.path.getsize(esm_path) at entry
    backup,         \* content of Fallout4.esm.backup
    temp,           \* content of Fallout4.esm.patched
    tempSize,       \* size of Fallout4.esm.patched
    tempBound,      \* whether the local temp_output has been assigned
    assetOk,        \* the .xdelta asset exists
    toolOk,         \* xdelta3.exe exists
    toolExit,       \* what subprocess.run did
    restoreIn,      \* which block the running restore code belongs to
    patchResult,    \* what patch_fallout4_esm returned
    instPc          \* position of perform_installation

VARIABLES
    ba2Dir,         \* the *.ba2 files of data_path: name, bytes, whether open() succeeds
    dgPc,           \* position inside downgrade_dlc_ba2_files
    dgRun,          \* calls of downgrade_dlc_ba2_files that have returned
    dgNeed,         \* dlc_needing_downgrade, flattened: (file index, group index)
    dgPos,          \* index in dgNeed of the file the loop handles next
    dgCount,        \* success_count
    dgByDlc,        \* downgraded_files of every group, sequences of file indices
    dgResults,      \* what each call returned: success count and per-group map
    dgSnap,         \* ba2Dir as the first call left it
    dgWritten,      \* files the running call has rewritten
    dgWriteFailed,  \* files whose rewrite failed in the running call
    hdrSeen         \* per file: the last result of BA2Header.from_file on it

VARIABLES
    scanDirs,       \* the directories detect_dlc_in_both_games scans, in scan order
    scanPos,        \* index of the directory scanned next
    dlcInfo         \* dlc_info: per catalog entry found_in, esm_path, ba2_paths, is_next_gen

VARIABLES
    cpuCount,       \* os.cpu_count(), 0 for None
    availMem,       \* psutil.virtual_memory().available in units of 256 MiB
    psutilOk,       \* whether the memory query succeeds
    wcPc            \* position of the worker calculation

VARIABLES
    errKind,        \* per file id: the exception its copy ran into, "none" if none
    tries           \* per file id: how often the copy of the file was attempted

VARIABLES
    updPc,          \* position of perform_update around its Step 2
    dialogs,        \* how often handle_files_in_use has been shown
    userExists,     \* whether profiles/Default/modlist.txt exists
    userText,       \* its text, a sequence of characters
    userOrig,       \* its text before merge_modlist_txt
    sourceText,     \* the text of the modlist.txt of the update package
    mlPc            \* position of merge_modlist_txt

VARIABLES
    lkVariant,      \* which parallel copier runs, at the granularity of its locks
    lkPc,           \* per thread (0 is the coordinating thread): its position
    listLock,       \* the thread holding failed_files_lock, -1 if none
    ctrLock,        \* the thread holding copied_counter._lock, -1 if none
    lkNext,         \* copy tasks the pool has started
    lkDoneQ,        \* finished futures as_completed has still to yield
    lkFailed,       \* len(failed_files)
    lkCounter       \* copied_counter._value, in chunks

VARIABLES
    rmPc,           \* position of perform_update in its removal steps
    rmIdx,          \* index of the deprecated directory whose removal is next
    rmPresent,      \* the deprecated directories that exist
    rmDialogs,      \* how often the retry-or-cancel dialog has been answered
    rmAsked,        \* per directory: how often its removal was attempted
    rmCancelled,    \* the user answered 'Cancel'
    rmLater         \* steps after the removals that have run

VARIABLES
    needsDowngrade, \* self.needs_downgrade
    srcEsmSize,     \* size of the Fallout4.esm of the game directories
    dlcSrc          \* the DLC archives of the directories the resolver chose

VARIABLES
    rbPc,           \* position of copy_directory_with_robocopy (robocopy_methods.py)
    rbProc,         \* the robocopy process
    rbSeen,         \* the cancel flag was seen while the output was read
    rbLines         \* lines of robocopy output read so far

copyVars == <<variant, srcDir, srcTree, excludeDirs, excludeFiles, maxWorkers,
              cancel, copyPc, manifest, nextTask, wk, fut, doneQ, dest, counter,
              failed, filesCopied, completedCount, uiLast, outcome>>
patchVars == <<patchPc, esm, esmSize, backup, temp, tempSize, tempBound, assetOk,
               toolOk, toolExit, restoreIn, patchResult, instPc>>
dgVars == <<ba2Dir, dgPc, dgRun, dgNeed, dgPos, dgCount, dgByDlc, dgResults, dgSnap,
            dgWritten, dgWriteFailed, hdrSeen>>
\* the variables of the components other than the tree copiers and the patcher
resVars == <<scanDirs, scanPos, dlcInfo>>
wcVars == <<cpuCount, availMem, psutilOk, wcPc>>
retryVars == <<errKind, tries>>
\* the components that have no part in a tree copy
updVars == <<updPc, dialogs>>
mlVars == <<userExists, userText, userOrig, sourceText, mlPc>>
lockVars == <<lkVariant, lkPc, listLock, ctrLock, lkNext, lkDoneQ, lkFailed, lkCounter>>
\* the components modelled on their own
rmVars == <<rmPc, rmIdx, rmPresent, rmDialogs, rmAsked, rmCancelled, rmLater>>
flagVars == <<needsDowngrade, srcEsmSize, dlcSrc>>
rbVars == <<rbPc, rbProc, rbSeen, rbLines>>
extraVars == <<lockVars, rmVars, flagVars, rbVars>>
apartVars == <<dgVars, resVars, wcVars, updVars, mlVars, extraVars>>
otherVars == <<apartVars, retryVars>>
vars == <<copyVars, patchVars, otherVars, faults>>
\* what the downgrader leaves alone
notDgVars == <<copyVars, patchVars, resVars, wcVars, retryVars, updVars, mlVars, extraVars>>
\* what the resolver leaves alone
notResVars == <<copyVars, patchVars, dgVars, wcVars, retryVars, updVars, mlVars, faults,
                extraVars>>

-----------------------------------------------------------------------------
(* Bounds of the model *)

\* files in the source tree of the exclusion scenarios
MaxTreeFiles == 2
\* files or file-system calls the environment makes fail in one run
MaxFaults == 1
\* files in the flat tree of the concurrency scenarios
MaxConcFiles == 2
\* files in the flat tree of the failure-ratio scenarios
MaxRatioFiles == 10
\* *.ba2 files in the data directory of the downgrader
MaxArchives == 2
\* calls of downgrade_dlc_ba2_files in a row
MaxRuns == 2
\* directories the resolver scans
MaxDirs == 2
\* largest CPU count
MaxCpu == 9
\* largest available memory, in units of 256 MiB
MaxMem == 35
\* lines of the user's modlist.txt
MaxUserLines == 2
\* lines of the modlist.txt of the update package
MaxSourceLines == 2
\* pool threads of the lock-level copier
MaxLockWorkers == 2
\* copy tasks of the lock-level copier
MaxLockTasks == 3
\* chunks the tasks of the lock-level copier write in all
MaxLockChunks == 2
\* answers to the retry-or-cancel dialog in one update
MaxDialogs == 2
\* lines of robocopy output read in one call
MaxLines == 2

-----------------------------------------------------------------------------
(* Strings *)

\* str.lower() on one character
LowerChar(c) ==
    CASE c = "A" -> "a" [] c = "B" -> "b" [] c = "C" -> "c" [] c = "D" -> "d"
      [] c = "E" -> "e" [] c = "F" -> "f" [] c = "G" -> "g" [] c = "H" -> "h"
      [] c = "I" -> "i" [] c = "J" -> "j" [] c = "K" -> "k" [] c = "L" -> "l"
      [] c = "M" -> "m" [] c = "N" -> "n" [] c = "O" -> "o" [] c = "P" -> "p"
      [] c = "Q" -> "q" [] c = "R" -> "r" [] c = "S" -> "s" [] c = "T" -> "t"
      [] c = "U" -> "u" [] c = "V" -> "v" [] c = "W" -> "w" [] c = "X" -> "x"
      [] c = "Y" -> "y" [] c = "Z" -> "z" [] OTHER -> c

\* str.lower()
Lower(s) == [i \in 1..Len(s) |-> LowerChar(s[i])]

\* the Python test `sub in s` on strings
Contains(sub, s) ==
    \E i \in 0..(Len(s) - Len(sub)) : SubSeq(s, i + 1, i + Len(sub)) = sub

\* the Python test `x in list`
InList(x, list) == \E i \in 1..Len(list) : list[i] = x

\* [f(x) for x in list]
LowerAll(list) == [i \in 1..Len(list) |-> Lower(list[i])]

Sep == <<"\\">>

\* os.path.join(root, d)
RECURSIVE JoinPath(_, _)
JoinPath(base, dirs) ==
    IF dirs = <<>> THEN base
    ELSE JoinPath(base \o Sep \o Head(dirs), Tail(dirs))

-----------------------------------------------------------------------------
(* The directory and file names of the scenarios *)

NameF4SE == <<"F", "4", "S", "E">>
Namef4se == <<"f", "4", "s", "e">>
NameSource == <<"s", "o", "u", "r", "c", "e">>
NameSourceCap == <<"S", "o", "u", "r", "c", "e">>
NameScripts == <<"s", "c", "r", "i", "p", "t", "s">>
NameScriptsSource == NameScripts \o Sep \o NameSource
NameResources == <<"R", "e", "s", "o", "u", "r", "c", "e", "s">>
NameData == <<"D", "a", "t", "a">>
NameMain == <<"M", "a", "i", "n">>
NameReadme == <<"r", "e", "a", "d", "m", "e">>
NameReadmeCap == <<"R", "e", "a", "d", "M", "e">>
NamePlugin == <<"p", "l", "u", "g", "i", "n">>

\* the default exclude_dirs of the parallel copiers
DefaultExcludeDirs == <<NameF4SE, NameSource, NameScriptsSource>>
\* the default exclude_dirs of copy_directory_with_progress
SeqDefaultExcludeDirs == <<NameSource, NameScriptsSource>>

NameDigits == <<"0", "1", "2", "3", "4", "5", "6", "7", "8", "9">>
\* the name of the i-th file of a flat tree: "f00", "f01", ...
FlatName(i) == <<"f", NameDigits[(i \div 10) + 1], NameDigits[(i % 10) + 1]>>

\* The candidate files of a source tree, in the order os.walk (top-down) lists
\* them: dir is the chain of directories below src_dir, size is in MiB.
TreeFiles == <<
    [dir |-> <<>>,                           name |-> NameMain,      size |-> 5],
    [dir |-> <<>>,                           name |-> NameReadmeCap, size |-> 1],
    [dir |-> <<NameData>>,                   name |-> NamePlugin,    size |-> 4],
    [dir |-> <<NameData, Namef4se>>,         name |-> NamePlugin,    size |-> 2],
    [dir |-> <<NameF4SE>>,                   name |-> NamePlugin,    size |-> 2],
    [dir |-> <<NameResources>>,              name |-> NameMain,      size |-> 3],
    [dir |-> <<NameScripts, NameSourceCap>>, name |-> NameMain,      size |-> 1] >>

\* the sub-sequence of s at the positions in keep, order kept
RECURSIVE SubTree(_, _, _)
SubTree(s, keep, i) ==
    IF i > Len(s) THEN <<>>
    ELSE (IF i \in keep THEN <<s[i]>> ELSE <<>>) \o SubTree(s, keep, i + 1)

\* the source trees of the exclusion scenarios
Trees ==
    { SubTree(TreeFiles, keep, 1) :
        keep \in { k \in SUBSET (1..Len(TreeFiles)) :
                     Cardinality(k) >= 1 /\ Cardinality(k) <= MaxTreeFiles } }

\* the file sizes (MiB) of the concurrency scenarios
ConcSizes == {0, 1, 3, 6}

\* the size vectors of n files, smallest first (the copier sorts by size)
SortedSizes(n) ==
    { sz \in [1..n -> ConcSizes] : \A i \in 1..(n - 1) : sz[i] <= sz[i + 1] }

\* a flat tree: files f01..f0n directly under src_dir with the given sizes
FlatTree(sizes) ==
    [i \in 1..Len(sizes) |-> [dir |-> <<>>, name |-> FlatName(i), size |-> sizes[i]]]

PlainSrcDir == <<"D", ":", "\\", "L">>
\* a source directory whose own path names an excluded directory
OddSrcDir == <<"D", ":", "\\">> \o Namef4se \o Sep \o <<"L">>

-----------------------------------------------------------------------------
(* Program constants, sizes in MiB *)

\* chunk_size = 4 * 1024 * 1024
ChunkSize == 4
\* the worker posts when current_total % (10 * 1024 * 1024) < chunk_size
ThrottleBytes == 10
\* the coordinator posts when completed_count % 10 == 0
ThrottleFiles == 10
\* 100 percent, in thousandths of a percent
PctFull == 100000
\* progress = min(progress, 99.9)
PctCap == 99900

-----------------------------------------------------------------------------
(* Building the manifest *)

Ids == 1..Len(srcTree)

\* root of the os.walk step that lists file id
RootOf(id) == JoinPath(srcDir, srcTree[id].dir)

\* dirs[:] = [d for d in dirs if d.lower() not in exclude_dirs_lower]
Pruned(dirs, exclLower) == \E i \in 1..Len(dirs) : InList(Lower(dirs[i]), exclLower)

\* if any(excl.lower() in root.lower() for excl in exclude_dirs_lower): continue
RootSkipped(root, exclLower) ==
    \E i \in 1..Len(exclLower) : Contains(Lower(exclLower[i]), Lower(root))

\* copy_directory_parallel: if file.lower() in exclude_files_lower: continue
FileSkippedParallel(name, exclFiles) == InList(Lower(name), LowerAll(exclFiles))

\* copy_directory_parallel_with_exclusions: if file in exclude_files_set: continue
FileSkippedExclusions(name, exclFiles) == InList(name, exclFiles)

\* whether the walk of a parallel copier reaches file id and keeps it
WalkKeepsParallel(id) ==
    LET exclLower == LowerAll(excludeDirs) IN
    /\ ~Pruned(srcTree[id].dir, exclLower)
    /\ ~RootSkipped(RootOf(id), exclLower)
    /\ IF variant = "exclusions"
       THEN ~FileSkippedExclusions(srcTree[id].name, excludeFiles)
       ELSE ~FileSkippedParallel(srcTree[id].name, excludeFiles)

\* copy_directory_with_progress: only 'f4se' is looked at, exclude_dirs is not
WalkKeepsSequential(id) ==
    /\ ~Pruned(srcTree[id].dir, <<Namef4se>>)
    /\ ~Contains(Namef4se, Lower(RootOf(id)))

WalkKeeps(id) ==
    IF variant = "sequential" THEN WalkKeepsSequential(id) ELSE WalkKeepsParallel(id)

\* the ids the walk appends, in walk order; unreadable: os.path.getsize raises
RECURSIVE WalkList(_, _)
WalkList(i, unreadable) ==
    IF i > Len(srcTree) THEN <<>>
    ELSE (IF WalkKeeps(i) /\ i \notin unreadable THEN <<i>> ELSE <<>>)
         \o WalkList(i + 1, unreadable)

\* insert id in a list sorted by size, after the entries of the same size
RECURSIVE InsertBySize(_, _)
InsertBySize(id, list) ==
    IF list = <<>> THEN <<id>>
    ELSE IF srcTree[Head(list)].size <= srcTree[id].size
         THEN <<Head(list)>> \o InsertBySize(id, Tail(list))
         ELSE <<id>> \o list

\* files_to_copy.sort(key=lambda x: x[2]), a stable sort
RECURSIVE SortBySize(_)
SortBySize(list) ==
    IF list = <<>> THEN <<>>
    ELSE InsertBySize(list[Len(list)], SortBySize(SubSeq(list, 1, Len(list) - 1)))

\* total_size
RECURSIVE SumSizes(_)
SumSizes(list) ==
    IF list = <<>> THEN 0 ELSE srcTree[Head(list)].size + SumSizes(Tail(list))

TotalSize == SumSizes(manifest)

\* progress = (current / total_size * 100) if total_size > 0 else 0
Percent(current, total) == IF total > 0 THEN (current * PctFull) \div total ELSE 0

\* a counter that is advanced by the chunk size instead of the bytes written
CounterAddChunkSize(value, amount) == value + ChunkSize

\* ThreadSafeCounter.add
CounterAdd(value, amount) == value + amount

\* if current_total % (10 * 1024 * 1024) < chunk_size
WorkerThrottle(currentTotal) == currentTotal % ThrottleBytes < ChunkSize

\* if len(failed_files) > len(files_to_copy) * 0.1; the float product is the
\* double nearest to n/10 from above, so the test is that of the exact numbers
TooManyFailures(nFailed, nFiles) == nFailed * 10 > nFiles

-----------------------------------------------------------------------------
(* Initial states *)

Idle == [st |-> "idle", f |-> 0, done |-> 0, cur |-> 0]

\* no downgrader runs
Ba2Idle ==
    /\ ba2Dir = <<>> /\ dgPc = "idle" /\ dgRun = 0 /\ dgNeed = <<>> /\ dgPos = 1
    /\ dgCount = 0 /\ dgByDlc = <<>> /\ dgResults = <<>> /\ dgSnap = <<>>
    /\ dgWritten = {} /\ dgWriteFailed = {} /\ hdrSeen = <<>>

\* no resolver runs
ResIdle == scanDirs = <<>> /\ scanPos = 1 /\ dlcInfo = <<>>

\* max_workers is supplied by the caller
WcIdle == cpuCount = 0 /\ availMem = 0 /\ psutilOk = FALSE /\ wcPc = "idle"

\* no update runs
UpdIdle == updPc = "idle" /\ dialogs = 0

\* no mod-list merge runs
MlIdle ==
    /\ userExists = FALSE /\ userText = <<>> /\ userOrig = <<>> /\ sourceText = <<>>
    /\ mlPc = "idle"

\* no lock-level run of a parallel copier
LockIdle ==
    /\ lkVariant = "none" /\ lkPc = <<>> /\ listLock = -1 /\ ctrLock = -1
    /\ lkNext = 0 /\ lkDoneQ = <<>> /\ lkFailed = 0 /\ lkCounter = 0

\* perform_update is not in its removal steps
RmIdle ==
    /\ rmPc = "idle" /\ rmIdx = 0 /\ rmPresent = {} /\ rmDialogs = 0 /\ rmAsked = <<>>
    /\ rmCancelled = FALSE /\ rmLater = 0

\* no fresh install: the flag has its initial value
FlagIdle == needsDowngrade = FALSE /\ srcEsmSize = 0 /\ dlcSrc = <<>>

\* no robocopy call
RbIdle == rbPc = "idle" /\ rbProc = "none" /\ rbSeen = FALSE /\ rbLines = 0

\* none of the components modelled on their own runs
ExtraIdle == LockIdle /\ RmIdle /\ FlagIdle /\ RbIdle

\* only the tree copiers or the patcher run
OtherIdle == Ba2Idle /\ ResIdle /\ WcIdle /\ UpdIdle /\ MlIdle /\ ExtraIdle

\* no patch runs in the copy scenarios
PatchIdle ==
    /\ patchPc = "idle" /\ esm = "absent" /\ esmSize = 0 /\ backup = "absent"
    /\ temp = "absent" /\ tempSize = 0 /\ tempBound = FALSE /\ assetOk = FALSE
    /\ toolOk = FALSE /\ toolExit = "none" /\ restoreIn = "none"
    /\ patchResult = "none" /\ instPc = "idle"

\* the state at the call of a copier
CopyCall ==
    /\ cancel = FALSE /\ copyPc = "call" /\ manifest = <<>> /\ nextTask = 1
    /\ wk = [w \in 1..maxWorkers |-> Idle]
    /\ fut = [i \in Ids |-> "none"]
    /\ doneQ = <<>>
    /\ dest = [i \in Ids |-> -1]
    /\ counter = 0 /\ failed = <<>> /\ filesCopied = 0 /\ completedCount = 0
    /\ uiLast = -1 /\ outcome = "none" /\ faults = 0
    /\ errKind = [i \in Ids |-> "none"]
    /\ tries = [i \in Ids |-> 0]

\* exclusion scenarios: a nested tree, one worker
InitTree ==
    /\ variant \in {"parallel", "exclusions", "sequential"}
    /\ srcDir \in {PlainSrcDir, OddSrcDir}
    /\ srcTree \in Trees
    /\ excludeDirs = DefaultExcludeDirs
    /\ excludeFiles \in {<<>>, <<NameReadme>>}
    /\ maxWorkers = 1
    /\ CopyCall /\ PatchIdle /\ OtherIdle

\* concurrency scenarios: a flat tree, two workers
InitConc ==
    /\ variant \in {"parallel", "exclusions"}
    /\ srcDir = PlainSrcDir
    /\ srcTree \in { FlatTree(sz) : sz \in SortedSizes(MaxConcFiles) }
    /\ excludeDirs = DefaultExcludeDirs
    /\ excludeFiles = <<>>
    /\ maxWorkers = 2
    /\ CopyCall /\ PatchIdle /\ OtherIdle

\* failure-ratio scenarios: many small files, one worker
InitRatio ==
    /\ variant \in {"parallel", "exclusions"}
    /\ srcDir = PlainSrcDir
    /\ srcTree \in { FlatTree([i \in 1..n |-> IF i = 1 THEN 1 ELSE 0]) :
                       n \in {1, MaxRatioFiles} }
    /\ excludeDirs = DefaultExcludeDirs
    /\ excludeFiles = <<>>
    /\ maxWorkers = 1
    /\ CopyCall /\ PatchIdle /\ OtherIdle

-----------------------------------------------------------------------------
(* The parallel copiers: copy_directory_parallel and                       *)
(* copy_directory_parallel_with_exclusions                                 *)

Min(a, b) == IF a <= b THEN a ELSE b

\* the sets of files whose os.path.getsize raises OSError during the walk
Unreadable ==
    { u \in SUBSET { i \in Ids : WalkKeeps(i) } : Cardinality(u) <= MaxFaults - faults }

\* the walk, the sort, and `if not files_to_copy: return True`
Scan ==
    /\ copyPc = "call" /\ variant # "sequential"
    /\ \E u \in Unreadable :
        LET m == SortBySize(WalkList(1, u)) IN
        /\ manifest' = m
        /\ faults' = faults + Cardinality(u)
        /\ fut' = [i \in Ids |-> IF InList(i, m) THEN "queued" ELSE "none"]
        /\ IF m = <<>>
           THEN copyPc' = "returned" /\ outcome' = "true"
           ELSE copyPc' = "pool" /\ outcome' = outcome
    /\ UNCHANGED <<variant, srcDir, srcTree, excludeDirs, excludeFiles, maxWorkers,
                   cancel, nextTask, wk, doneQ, dest, counter, failed, filesCopied,
                   completedCount, uiLast, patchVars, otherVars>>

\* a pool thread takes the next task; copy_single_file_safe tests the flag first
TaskStart(w) ==
    /\ copyPc = "pool" /\ wk[w].st = "idle" /\ nextTask <= Len(manifest)
    /\ LET f == manifest[nextTask] IN
        IF cancel
        THEN /\ fut' = [fut EXCEPT ![f] = "interrupted"]
             /\ doneQ' = Append(doneQ, f)
             /\ wk' = wk
        ELSE /\ fut' = [fut EXCEPT ![f] = "running"]
             /\ wk' = [wk EXCEPT ![w] = [st |-> "open", f |-> f, done |-> 0, cur |-> 0]]
             /\ doneQ' = doneQ
    /\ nextTask' = nextTask + 1
    /\ UNCHANGED <<variant, srcDir, srcTree, excludeDirs, excludeFiles, maxWorkers,
                   cancel, copyPc, manifest, dest, counter, failed, filesCopied,
                   completedCount, uiLast, outcome, faults, patchVars, otherVars>>

\* where the chunk loop goes after done bytes of file f
AfterChunk(f, done) == IF done < srcTree[f].size THEN "chunk" ELSE "stat"

\* opening a locked or read-only file raises PermissionError; a read, write,
\* fsync or copystat that fails raises another OSError
KindsAt(st) == IF st = "open" THEN {"permission"} ELSE {"other"}

\* an I/O call inside the try block raises
TaskRaise(w) ==
    /\ faults < MaxFaults
    /\ faults' = faults + 1
    /\ wk' = [wk EXCEPT ![w].st = "except"]
    /\ \E kind \in KindsAt(wk[w].st) : errKind' = [errKind EXCEPT ![wk[w].f] = kind]

\* os.makedirs, remove_readonly_and_overwrite, open(src), open(dest, 'wb')
TaskOpen(w) ==
    /\ wk[w].st = "open"
    /\ tries' = [tries EXCEPT ![wk[w].f] = @ + 1]
    /\ \/ /\ dest' = [dest EXCEPT ![wk[w].f] = 0]
          /\ wk' = [wk EXCEPT ![w].st = AfterChunk(wk[w].f, 0)]
          /\ faults' = faults /\ errKind' = errKind
       \/ TaskRaise(w) /\ dest' = dest
    /\ UNCHANGED <<variant, srcDir, srcTree, excludeDirs, excludeFiles, maxWorkers,
                   cancel, copyPc, manifest, nextTask, fut, doneQ, counter, failed,
                   filesCopied, completedCount, uiLast, outcome, patchVars, apartVars>>

\* one turn of the chunk loop: read, write, bytes_copied +=, copied_counter.add
TaskChunk(w) ==
    /\ wk[w].st = "chunk"
    /\ LET f == wk[w].f
           n == Min(ChunkSize, srcTree[f].size - wk[w].done)
           total == CounterAdd(counter, n) IN
        \/ /\ dest' = [dest EXCEPT ![f] = dest[f] + n]
           /\ counter' = total
           /\ wk' = [wk EXCEPT ![w] =
                       [st |-> IF WorkerThrottle(total) THEN "post"
                               ELSE AfterChunk(f, wk[w].done + n),
                        f |-> f, done |-> wk[w].done + n, cur |-> total]]
           /\ faults' = faults /\ errKind' = errKind
        \/ TaskRaise(w) /\ dest' = dest /\ counter' = counter
    /\ UNCHANGED <<variant, srcDir, srcTree, excludeDirs, excludeFiles, maxWorkers,
                   cancel, copyPc, manifest, nextTask, fut, doneQ, failed,
                   filesCopied, completedCount, uiLast, outcome, patchVars, apartVars,
                   tries>>

\* the percentage a worker hands to root.after
WorkerProgress(currentTotal, total) == Percent(currentTotal, total)

\* the throttled self.root.after(0, ...) of a worker
TaskPost(w) ==
    /\ wk[w].st = "post"
    /\ uiLast' = WorkerProgress(wk[w].cur, TotalSize)
    /\ wk' = [wk EXCEPT ![w].st = AfterChunk(wk[w].f, wk[w].done)]
    /\ UNCHANGED <<variant, srcDir, srcTree, excludeDirs, excludeFiles, maxWorkers,
                   cancel, copyPc, manifest, nextTask, fut, doneQ, dest, counter,
                   failed, filesCopied, completedCount, outcome, faults, patchVars, otherVars>>

\* shutil.copystat and `return True, src_file, None`
TaskStat(w) ==
    /\ wk[w].st = "stat"
    /\ \/ /\ fut' = [fut EXCEPT ![wk[w].f] = "ok"]
          /\ doneQ' = Append(doneQ, wk[w].f)
          /\ wk' = [wk EXCEPT ![w] = Idle]
          /\ faults' = faults /\ errKind' = errKind
       \/ TaskRaise(w) /\ fut' = fut /\ doneQ' = doneQ
    /\ UNCHANGED <<variant, srcDir, srcTree, excludeDirs, excludeFiles, maxWorkers,
                   cancel, copyPc, manifest, nextTask, dest, counter, failed,
                   filesCopied, completedCount, uiLast, outcome, patchVars, apartVars,
                   tries>>

\* except Exception: failed_files.append(...); return False, src_file, str(e)
TaskExcept(w) ==
    /\ wk[w].st = "except"
    /\ failed' = Append(failed, wk[w].f)
    /\ fut' = [fut EXCEPT ![wk[w].f] = "failed"]
    /\ doneQ' = Append(doneQ, wk[w].f)
    /\ wk' = [wk EXCEPT ![w] = Idle]
    /\ UNCHANGED <<variant, srcDir, srcTree, excludeDirs, excludeFiles, maxWorkers,
                   cancel, copyPc, manifest, nextTask, dest, counter, filesCopied,
                   completedCount, uiLast, outcome, faults, patchVars, otherVars>>

\* failed_files after the coordinator has looked at the future of file f:
\* a raised future is appended by both copiers, a False result only by
\* copy_directory_parallel_with_exclusions
ReapFailed(list, f, state) ==
    IF state = "interrupted" THEN Append(list, f)
    ELSE IF state = "failed" /\ variant = "exclusions" THEN Append(list, f)
    ELSE list

\* progress = min(progress, 99.9)
CoordinatorProgress(current, total) == Min(Percent(current, total), PctCap)

\* one turn of `for future in as_completed(future_to_file)`; timeElapsed is
\* current_time - last_update_time > 0.5
Reap ==
    /\ copyPc = "pool" /\ doneQ # <<>>
    /\ LET f == Head(doneQ) IN
        /\ doneQ' = Tail(doneQ)
        /\ completedCount' = completedCount + 1
        /\ filesCopied' = IF fut[f] = "ok" THEN filesCopied + 1 ELSE filesCopied
        /\ failed' = ReapFailed(failed, f, fut[f])
        /\ \E timeElapsed \in BOOLEAN :
            uiLast' = IF timeElapsed \/ (completedCount + 1) % ThrottleFiles = 0
                      THEN CoordinatorProgress(counter, TotalSize)
                      ELSE uiLast
    /\ UNCHANGED <<variant, srcDir, srcTree, excludeDirs, excludeFiles, maxWorkers,
                   cancel, copyPc, manifest, nextTask, wk, fut, dest, counter,
                   outcome, faults, patchVars, otherVars>>

\* a loop over the futures that is left after the first result
AnyYielded(count, total) == count >= 1

\* `for future in as_completed(future_to_file)` has yielded every future, and
\* the `with ThreadPoolExecutor` block has joined the pool threads
AllYielded(count, total) == count = total

\* the pool is left, 100 is posted, the failure ratio decides the result
Finish ==
    /\ copyPc = "pool" /\ AllYielded(completedCount, Len(manifest))
    /\ uiLast' = PctFull
    /\ IF TooManyFailures(Len(failed), Len(manifest))
       THEN copyPc' = "raised" /\ outcome' = "too_many"
       ELSE copyPc' = "returned" /\ outcome' = "true"
    /\ UNCHANGED <<variant, srcDir, srcTree, excludeDirs, excludeFiles, maxWorkers,
                   cancel, manifest, nextTask, wk, fut, doneQ, dest, counter,
                   failed, filesCopied, completedCount, faults, patchVars, otherVars>>

\* the user asks to cancel while the copy runs
SetCancel ==
    /\ ~cancel /\ copyPc \in {"pool", "loop"}
    /\ cancel' = TRUE
    /\ UNCHANGED <<variant, srcDir, srcTree, excludeDirs, excludeFiles, maxWorkers,
                   copyPc, manifest, nextTask, wk, fut, doneQ, dest, counter,
                   failed, filesCopied, completedCount, uiLast, outcome, faults,
                   patchVars, otherVars>>

-----------------------------------------------------------------------------
(* The sequential copier: copy_directory_with_progress *)

\* the walk and `if file_count == 0: return`
SeqScan ==
    /\ copyPc = "call" /\ variant = "sequential"
    /\ \E u \in Unreadable :
        LET m == WalkList(1, u) IN
        /\ manifest' = m
        /\ faults' = faults + Cardinality(u)
        /\ fut' = [i \in Ids |-> IF InList(i, m) THEN "queued" ELSE "none"]
        /\ IF m = <<>>
           THEN copyPc' = "returned" /\ outcome' = "none_found"
           ELSE copyPc' = "loop" /\ outcome' = outcome
    /\ UNCHANGED <<variant, srcDir, srcTree, excludeDirs, excludeFiles, maxWorkers,
                   cancel, nextTask, wk, doneQ, dest, counter, failed, filesCopied,
                   completedCount, uiLast, patchVars, otherVars>>

\* what a failed shutil.copy2 leaves at the destination: nothing new, or a
\* created file without its content
SeqLeftover(f) == {dest[f], 0}

\* copied_size += file_size; files_copied += 1; then the progress update, whose
\* division raises ZeroDivisionError when total_size is 0
SeqCopied(f) ==
    /\ dest' = [dest EXCEPT ![f] = srcTree[f].size]
    /\ counter' = counter + srcTree[f].size
    /\ filesCopied' = filesCopied + 1
    /\ fut' = [fut EXCEPT ![f] = "ok"]
    /\ IF TotalSize = 0
       THEN /\ copyPc' = "raised" /\ outcome' = "error"
            /\ UNCHANGED <<uiLast, nextTask>>
       ELSE /\ uiLast' = Percent(counter + srcTree[f].size, TotalSize)
            /\ nextTask' = nextTask + 1
            /\ UNCHANGED <<copyPc, outcome>>

\* the calls of shutil.copy2 on file f in one turn, and the exception met
SeqTried(f, calls, kind) ==
    /\ tries' = [tries EXCEPT ![f] = @ + calls]
    /\ errKind' = [errKind EXCEPT ![f] = kind]

\* one turn of `for src_file, dest_file, file_size in files_to_copy`
SeqStep ==
    /\ copyPc = "loop" /\ nextTask <= Len(manifest)
    /\ LET f == manifest[nextTask] IN
        \/ \* if self.cancel_requested: raise InterruptedError
           /\ cancel
           /\ copyPc' = "raised" /\ outcome' = "interrupted"
           /\ UNCHANGED <<dest, counter, filesCopied, fut, uiLast, nextTask, faults,
                          errKind, tries>>
        \/ \* shutil.copy2 succeeds
           /\ ~cancel /\ SeqCopied(f) /\ faults' = faults
           /\ SeqTried(f, 1, "none")
        \/ \* PermissionError, and the retry after remove_readonly succeeds
           /\ ~cancel /\ faults < MaxFaults
           /\ SeqCopied(f) /\ faults' = faults + 1
           /\ SeqTried(f, 2, "permission")
        \/ \* PermissionError, and the retry raises as well: continue
           /\ ~cancel /\ faults < MaxFaults
           /\ faults' = faults + 1
           /\ SeqTried(f, 2, "permission")
           /\ \E left \in SeqLeftover(f) : dest' = [dest EXCEPT ![f] = left]
           /\ fut' = [fut EXCEPT ![f] = "failed"]
           /\ nextTask' = nextTask + 1
           /\ UNCHANGED <<counter, filesCopied, uiLast, copyPc, outcome>>
        \/ \* any other exception leaves the loop and is raised again
           /\ ~cancel /\ faults < MaxFaults
           /\ faults' = faults + 1
           /\ SeqTried(f, 1, "other")
           /\ \E left \in SeqLeftover(f) : dest' = [dest EXCEPT ![f] = left]
           /\ fut' = [fut EXCEPT ![f] = "failed"]
           /\ copyPc' = "raised" /\ outcome' = "error"
           /\ UNCHANGED <<counter, filesCopied, uiLast, nextTask>>
    /\ UNCHANGED <<variant, srcDir, srcTree, excludeDirs, excludeFiles, maxWorkers,
                   cancel, manifest, wk, doneQ, failed, completedCount, patchVars, apartVars>>

\* the loop is over: the method returns
SeqFinish ==
    /\ copyPc = "loop" /\ nextTask > Len(manifest)
    /\ copyPc' = "returned" /\ outcome' = "true"
    /\ UNCHANGED <<variant, srcDir, srcTree, excludeDirs, excludeFiles, maxWorkers,
                   cancel, manifest, nextTask, wk, fut, doneQ, dest, counter,
                   failed, filesCopied, completedCount, uiLast, faults, patchVars, otherVars>>

NextParallel ==
    \/ Scan
    \/ \E w \in 1..maxWorkers : TaskStart(w)
    \/ \E w \in 1..maxWorkers : TaskOpen(w)
    \/ \E w \in 1..maxWorkers : TaskChunk(w)
    \/ \E w \in 1..maxWorkers : TaskPost(w)
    \/ \E w \in 1..maxWorkers : TaskStat(w)
    \/ \E w \in 1..maxWorkers : TaskExcept(w)
    \/ Reap
    \/ Finish
    \/ SetCancel

NextSequential ==
    \/ SeqScan
    \/ SeqStep
    \/ SeqFinish

NextCopy == NextParallel \/ NextSequential

\* exclusion scenarios
SpecTree == InitTree /\ [][NextCopy]_vars

\* concurrency scenarios
SpecConc == InitConc /\ [][NextParallel]_vars

\* failure-ratio scenarios
SpecRatio == InitRatio /\ [][NextParallel]_vars

-----------------------------------------------------------------------------
(* ESMPatcher.patch_fallout4_esm *)

\* the keys of patch_mappings
PatchSizeA == 330777465
PatchSizeB == 330553163
\* an expected size of copy_fallout_data_with_smart_dlc that is no key
StandardSize == 330777600
\* if patched_size > 300000000
SanityFloor == 300000000

\* esm_size not in self.patch_mappings
InPatchTable(size) == size \in {PatchSizeA, PatchSizeB}

\* the sizes Fallout4.esm has in the scenarios
EsmSizes == {PatchSizeA, PatchSizeB, StandardSize}
\* the sizes of the file the tool writes
OutSizes == {SanityFloor, SanityFloor + 1}

\* no copy runs in the patch scenarios
CopyIdle ==
    /\ variant = "none" /\ srcDir = <<>> /\ srcTree = <<>> /\ excludeDirs = <<>>
    /\ excludeFiles = <<>> /\ maxWorkers = 0 /\ cancel = FALSE /\ copyPc = "idle"
    /\ manifest = <<>> /\ nextTask = 1 /\ wk = <<>> /\ fut = <<>> /\ doneQ = <<>>
    /\ dest = <<>> /\ counter = 0 /\ failed = <<>> /\ filesCopied = 0
    /\ completedCount = 0 /\ uiLast = -1 /\ outcome = "none"
    /\ errKind = <<>> /\ tries = <<>>

\* Step 4 of copy_fallout_data_with_smart_dlc is about to call the patcher;
\* leftovers of an earlier run may lie beside Fallout4.esm
InitPatch ==
    /\ esm \in {"orig", "absent"}
    /\ esmSize \in IF esm = "absent" THEN {0} ELSE EsmSizes
    /\ backup \in {"absent", "stale"}
    /\ temp \in {"absent", "stale"}
    /\ tempSize = 0
    /\ tempBound = FALSE
    /\ assetOk \in BOOLEAN
    /\ toolOk \in BOOLEAN
    /\ toolExit = "none" /\ restoreIn = "none" /\ patchResult = "none"
    /\ patchPc = "entry" /\ instPc = "patching"
    /\ faults = 0
    /\ CopyIdle /\ OtherIdle

\* `return True` / `return False` / an exception leaves the method
PatchEnds(result) == patchPc' = "ended" /\ patchResult' = result

\* the checks before the try block
PatchEntry ==
    /\ patchPc = "entry"
    /\ IF esm = "absent" \/ ~InPatchTable(esmSize) \/ ~assetOk \/ ~toolOk
       THEN PatchEnds("false")
       ELSE patchPc' = "backup" /\ patchResult' = patchResult
    /\ UNCHANGED <<esm, esmSize, backup, temp, tempSize, tempBound, assetOk, toolOk,
                   toolExit, restoreIn, instPc, faults, copyVars, otherVars>>

\* an exception inside the try block reaches `except Exception`
ToHandler == patchPc' = "r_remove" /\ restoreIn' = "handler"

\* shutil.copy2(esm_path, backup_path), then temp_output = esm_path + '.patched';
\* a failed copy leaves the old backup or a truncated new one
PatchBackup ==
    /\ patchPc = "backup"
    /\ \/ /\ backup' = esm /\ tempBound' = TRUE
          /\ patchPc' = "run" /\ restoreIn' = restoreIn /\ faults' = faults
       \/ /\ faults < MaxFaults /\ faults' = faults + 1
          /\ backup' \in {backup, "truncated"} /\ tempBound' = tempBound
          /\ ToHandler
    /\ UNCHANGED <<esm, esmSize, temp, tempSize, assetOk, toolOk, toolExit,
                   patchResult, instPc, copyVars, otherVars>>

\* an acceptance test that lets a file of exactly the floor size through
AfterExitZeroAtFloor(content, size) ==
    IF content = "absent" THEN "r_remove"
    ELSE IF size >= SanityFloor THEN "s_remove"
    ELSE "r_remove"

\* where the code goes after subprocess.run returned exit code 0
AfterExitZero(content, size) ==
    IF content = "absent" THEN "r_remove"
    ELSE IF size > SanityFloor THEN "s_remove"
    ELSE "r_remove"

\* subprocess.run(cmd, timeout=120): xdelta3 -f -d -s esm patch temp_output
PatchRun ==
    /\ patchPc = "run"
    /\ \/ \* exit code 0, the output written (or, oddly, missing)
          /\ \E content \in {"patched"} \cup (IF temp = "absent" THEN {"absent"} ELSE {}) :
             \E size \in OutSizes :
               /\ temp' = content
               /\ tempSize' = IF content = "absent" THEN 0 ELSE size
               /\ patchPc' = AfterExitZero(content, size)
               /\ restoreIn' = IF AfterExitZero(content, size) = "s_remove"
                               THEN restoreIn ELSE "try"
          /\ toolExit' = "zero" /\ faults' = faults
       \/ \* a non-zero exit code
          /\ temp' \in {temp, "partial"} /\ tempSize' = 0
          /\ toolExit' = "nonzero" /\ patchPc' = "r_remove" /\ restoreIn' = "try"
          /\ faults' = faults
       \/ \* subprocess.TimeoutExpired
          /\ temp' \in {temp, "partial"} /\ tempSize' = 0
          /\ toolExit' = "timeout" /\ patchPc' = "r_remove" /\ restoreIn' = "timeout"
          /\ faults' = faults
       \/ \* the process cannot be started
          /\ faults < MaxFaults /\ faults' = faults + 1
          /\ toolExit' = "raised" /\ ToHandler
          /\ UNCHANGED <<temp, tempSize>>
    /\ UNCHANGED <<esm, esmSize, backup, tempBound, assetOk, toolOk, patchResult,
                   instPc, copyVars, otherVars>>

\* os.remove(esm_path) of the success path
PatchReplaceRemove ==
    /\ patchPc = "s_remove"
    /\ \/ esm' = "absent" /\ patchPc' = "s_rename" /\ restoreIn' = restoreIn
          /\ faults' = faults
       \/ faults < MaxFaults /\ faults' = faults + 1 /\ esm' = esm /\ ToHandler
    /\ UNCHANGED <<esmSize, backup, temp, tempSize, tempBound, assetOk, toolOk,
                   toolExit, patchResult, instPc, copyVars, otherVars>>

\* os.rename(temp_output, esm_path) of the success path
PatchReplaceRename ==
    /\ patchPc = "s_rename"
    /\ \/ /\ esm' = temp /\ temp' = "absent" /\ patchPc' = "s_backup"
          /\ restoreIn' = restoreIn /\ faults' = faults
       \/ /\ faults < MaxFaults /\ faults' = faults + 1
          /\ ToHandler /\ UNCHANGED <<esm, temp>>
    /\ UNCHANGED <<esmSize, backup, tempSize, tempBound, assetOk, toolOk, toolExit,
                   patchResult, instPc, copyVars, otherVars>>

\* if os.path.exists(backup_path): os.remove(backup_path); return True
PatchReplaceDone ==
    /\ patchPc = "s_backup"
    /\ \/ /\ backup' = "absent" /\ PatchEnds("true")
          /\ restoreIn' = restoreIn /\ faults' = faults
       \/ /\ backup # "absent" /\ faults < MaxFaults /\ faults' = faults + 1
          /\ ToHandler /\ UNCHANGED <<backup, patchResult>>
    /\ UNCHANGED <<esm, esmSize, temp, tempSize, tempBound, assetOk, toolOk,
                   toolExit, instPc, copyVars, otherVars>>

\* where an exception raised by the restore code goes: inside the try block to
\* `except Exception`, inside `except TimeoutExpired` out of the method, inside
\* `except Exception` to its inner handler, which goes on with the clean-up
RestoreRaises ==
    CASE restoreIn = "try" -> ToHandler /\ patchResult' = patchResult
      [] restoreIn = "timeout" -> PatchEnds("raised") /\ restoreIn' = restoreIn
      [] OTHER -> patchPc' = "r_temp" /\ restoreIn' = restoreIn
                  /\ patchResult' = patchResult

\* if os.path.exists(backup_path): if os.path.exists(esm_path): os.remove(esm_path)
PatchRestoreRemove ==
    /\ patchPc = "r_remove"
    /\ \/ /\ backup = "absent"
          /\ patchPc' = "r_temp"
          /\ UNCHANGED <<esm, restoreIn, patchResult, faults>>
       \/ /\ backup # "absent"
          /\ esm' = "absent" /\ patchPc' = "r_rename"
          /\ UNCHANGED <<restoreIn, patchResult, faults>>
       \/ /\ backup # "absent" /\ esm # "absent"
          /\ faults < MaxFaults /\ faults' = faults + 1
          /\ esm' = esm /\ RestoreRaises
    /\ UNCHANGED <<esmSize, backup, temp, tempSize, tempBound, assetOk, toolOk,
                   toolExit, instPc, copyVars, otherVars>>

\* os.rename(backup_path, esm_path)
PatchRestoreRename ==
    /\ patchPc = "r_rename"
    /\ \/ /\ esm' = backup /\ backup' = "absent" /\ patchPc' = "r_temp"
          /\ UNCHANGED <<restoreIn, patchResult, faults>>
       \/ /\ faults < MaxFaults /\ faults' = faults + 1
          /\ UNCHANGED <<esm, backup>> /\ RestoreRaises
    /\ UNCHANGED <<esmSize, temp, tempSize, tempBound, assetOk, toolOk, toolExit,
                   instPc, copyVars, otherVars>>

\* a clean-up that leaves the tool's output where it is
TempKept(content) == content

\* if os.path.exists(temp_output): os.remove(temp_output)
TempRemoved(content) == "absent"

\* the clean-up of temp_output and `return False`.
\* After a failed backup temp_output is not bound, and reading it raises.
PatchRestoreTemp ==
    /\ patchPc = "r_temp"
    /\ \/ /\ ~tempBound
          /\ PatchEnds("raised") /\ UNCHANGED <<temp, faults>>
       \/ /\ tempBound
          /\ temp' = TempRemoved(temp) /\ PatchEnds("false") /\ faults' = faults
       \/ /\ tempBound /\ temp # "absent"
          /\ faults < MaxFaults /\ faults' = faults + 1
          /\ temp' = temp
          /\ IF restoreIn = "try"
             THEN patchPc' = "r_remove" /\ patchResult' = patchResult
             ELSE PatchEnds("raised")
    /\ restoreIn' = IF patchPc' = "r_remove" THEN "handler" ELSE restoreIn
    /\ UNCHANGED <<esm, esmSize, backup, tempSize, tempBound, assetOk, toolOk,
                   toolExit, instPc, copyVars, otherVars>>

-----------------------------------------------------------------------------
(* copy_fallout_data_with_smart_dlc from its Step 4, and perform_installation *)

\* what the caller does with the patcher's result: False is logged and the
\* method returns normally; an exception is logged and raised again, which
\* ends perform_installation
AfterPatch(result) == IF result = "raised" THEN "aborted" ELSE "step8"

\* patch_result = patcher.patch_fallout4_esm(london_mod_dir) has ended
PatchReturn ==
    /\ instPc = "patching" /\ patchPc = "ended"
    /\ instPc' = AfterPatch(patchResult)
    /\ UNCHANGED <<patchPc, esm, esmSize, backup, temp, tempSize, tempBound, assetOk,
                   toolOk, toolExit, restoreIn, patchResult, faults, copyVars, otherVars>>

\* the step after step pc of perform_installation
StepAfter(pc) ==
    CASE pc = "step8" -> "step9"
      [] OTHER -> "step11"

\* copy_frik_ini, install_xse_plugin_preloader: each returns or raises
LaterStep ==
    /\ instPc \in {"step8", "step9"}
    /\ \/ instPc' = StepAfter(instPc) /\ faults' = faults
       \/ faults < MaxFaults /\ faults' = faults + 1 /\ instPc' = "failed"
    /\ UNCHANGED <<patchPc, esm, esmSize, backup, temp, tempSize, tempBound, assetOk,
                   toolOk, toolExit, restoreIn, patchResult, copyVars, otherVars>>

\* Step 11: `if self.needs_downgrade:` is false; Step 12 reports completion
DowngradeSkipped ==
    /\ instPc = "step11" /\ ~needsDowngrade
    /\ instPc' = "completed"
    /\ UNCHANGED <<patchPc, esm, esmSize, backup, temp, tempSize, tempBound, assetOk,
                   toolOk, toolExit, restoreIn, patchResult, faults, copyVars, otherVars>>

NextPatch ==
    \/ PatchEntry
    \/ PatchBackup
    \/ PatchRun
    \/ PatchReplaceRemove
    \/ PatchReplaceRename
    \/ PatchReplaceDone
    \/ PatchRestoreRemove
    \/ PatchRestoreRename
    \/ PatchRestoreTemp
    \/ PatchReturn
    \/ LaterStep
    \/ DowngradeSkipped

\* patch scenarios
SpecPatch == InitPatch /\ [][NextPatch]_vars

-----------------------------------------------------------------------------
(* Properties of the tree copiers *)

Parallel == variant \in {"parallel", "exclusions"}
CopyEnded == copyPc \in {"returned", "raised"}
TaskEnded(i) == fut[i] \in {"ok", "failed", "interrupted"}

\* file id lies under a directory whose name equals an excluded name, in any case
UnderExcludedDir(id) ==
    \E i \in 1..Len(srcTree[id].dir) :
        InList(Lower(srcTree[id].dir[i]), LowerAll(excludeDirs))

\* file id carries an excluded file name, in any case
HasExcludedName(id) == InList(Lower(srcTree[id].name), LowerAll(excludeFiles))

\* the files whose copy task failed
FailedFiles == { i \in Ids : fut[i] \in {"failed", "interrupted"} }

\* C1: whenever a parallel copier returns success, every file of the source
\* tree that is neither under an excluded directory nor carries an excluded
\* name is at its destination path with its full size. (Stated for the runs
\* in which no file-system call failed and nobody cancelled.)
C1_CopyCompleteness ==
    (Parallel /\ copyPc = "returned" /\ outcome = "true" /\ faults = 0 /\ ~cancel)
        => \A id \in Ids :
             (~UnderExcludedDir(id) /\ ~HasExcludedName(id))
                 => dest[id] = srcTree[id].size

\* C2: copying into an empty destination never puts there a file that lies
\* under a directory named like an excluded directory, in any letter case and
\* at any depth, whichever tree copier runs.
C2_ManifestExclusion ==
    \A id \in Ids : UnderExcludedDir(id) => dest[id] = -1

\* C3: when a parallel copier ends with a manifest of M files of which N
\* failed, it has raised if N > 0.1 M, and has returned True with a non-empty
\* failure list (when N > 0) if N <= 0.1 M.
C3_FailureRatio ==
    (Parallel /\ CopyEnded /\ manifest # <<>>)
        => IF Cardinality(FailedFiles) * 10 > Len(manifest)
           THEN outcome = "too_many"
           ELSE outcome = "true" /\ (FailedFiles # {} => failed # <<>>)

\* C4: a parallel copy one of whose tasks saw the cancel flag ends by raising
\* InterruptedError: it neither returns success nor raises the aggregate
\* 'too many copy failures' error.
C4_CancelPropagates ==
    (Parallel /\ CopyEnded /\ \E i \in Ids : fut[i] = "interrupted")
        => outcome = "interrupted"

\* C5: the percentages handed to the UI during one parallel copy never decrease.
C5_ProgressMonotone == [][uiLast' >= uiLast]_vars

\* C6: 100 percent is handed to the UI only once every copy task of the
\* operation has ended.
C6_ProgressCap ==
    uiLast >= PctFull => \A i \in 1..Len(manifest) : TaskEnded(manifest[i])

\* C7: when a parallel copy ends with no failed file, the shared byte counter
\* equals the total size of the manifest.
C7_ByteCounterExact ==
    (Parallel /\ CopyEnded /\ failed = <<>>) => counter = TotalSize

\* a copy of several files, more than one chunk long, ended with no failure
C7_Witness ==
    /\ Parallel /\ copyPc = "returned" /\ failed = <<>>
    /\ Len(manifest) >= 2 /\ TotalSize > ChunkSize /\ counter = TotalSize

-----------------------------------------------------------------------------
(* Properties of the patcher *)

PatchEnded == patchPc = "ended"
\* Fallout4.esm existed when patch_fallout4_esm was called
TargetExisted == esmSize # 0

\* C8: when the size of the target is a key of the patch table and the tool
\* exits non-zero, then at the return of patch_fallout4_esm the target holds
\* its original content and neither the .patched nor the .backup file is left
\* (in the runs in which no file-system call of the method itself fails).
C8_PatchRollback ==
    (PatchEnded /\ toolExit = "nonzero" /\ faults = 0)
        => esm = "orig" /\ temp = "absent" /\ backup = "absent"

\* the tool exited non-zero and the method has returned False
C8_Witness ==
    /\ PatchEnded /\ toolExit = "nonzero" /\ faults = 0
    /\ InPatchTable(esmSize) /\ patchResult = "false" /\ esm = "orig"

\* C9: whenever patch_fallout4_esm ends, on every path, a target that existed
\* at the call exists and holds its complete original content or the complete
\* patched content.
C9_TargetNeverLost ==
    (PatchEnded /\ TargetExisted) => esm \in {"orig", "patched"}

\* C10: a failed patch, whatever the reason, never makes the fresh install
\* abort: copy_fallout_data_with_smart_dlc returns and perform_installation
\* goes on to its later steps.
C10_PatchFailureSoft ==
    (PatchEnded /\ patchResult # "true") => instPc # "aborted"

-----------------------------------------------------------------------------
(* BA2 archives: BA2Header.from_file and FalloutVRDowngrader               *)

\* ArchiveVersionEnum
FALLOUT_4 == 1
FALLOUT_4_NG2 == 7
FALLOUT_4_NG == 8

\* len of the header: magic(4) + version(4) + format(4) + file_count(4)
HeaderLen == 16
\* f.seek(4)
VersionOffset == 4

\* b'BTDX', b'BTDY', b'GNRL' as byte values
MagicBTDX == <<66, 84, 68, 88>>
MagicOther == <<66, 84, 68, 89>>
FormatGNRL == <<71, 78, 82, 76>>

\* struct.unpack('<I', b)[0]
UnpackLE(b) == b[1] + 256 * b[2] + 65536 * b[3] + 16777216 * b[4]

\* a packing with the most significant byte first
PackBE(v) ==
    << (v \div 16777216) % 256, (v \div 65536) % 256, (v \div 256) % 256, v % 256 >>

\* struct.pack('<I', v)
PackLE(v) ==
    << v % 256, (v \div 256) % 256, (v \div 65536) % 256, (v \div 16777216) % 256 >>

\* a test that accepts every tag
MagicAny(magic) == TRUE

\* magic != b'BTDX' is the rejection
MagicOk(magic) == magic = MagicBTDX

NoHeader == [ok |-> FALSE]

\* BA2Header.from_file: None when open/read raises, when fewer than 16 bytes
\* are read, or when the magic differs
FromFile(file) ==
    IF ~file.readable THEN NoHeader
    ELSE LET header_data == SubSeq(file.bytes, 1, Min(HeaderLen, Len(file.bytes))) IN
         IF Len(header_data) < HeaderLen THEN NoHeader
         ELSE IF ~MagicOk(SubSeq(header_data, 1, 4)) THEN NoHeader
         ELSE [ok |-> TRUE,
               magic |-> SubSeq(header_data, 1, 4),
               version |-> UnpackLE(SubSeq(header_data, 5, 8)),
               format |-> SubSeq(header_data, 9, 12),
               file_count |-> UnpackLE(SubSeq(header_data, 13, 16))]

\* a test that takes every version of the enum for a next-gen one
IsKnownVersion(header) ==
    header.ok /\ header.version \in {FALLOUT_4, FALLOUT_4_NG, FALLOUT_4_NG2}

\* a test that takes every version but the compatible one for a next-gen one
IsNotCompatible(header) == header.ok /\ header.version # FALLOUT_4

\* header and header.version in [FALLOUT_4_NG, FALLOUT_4_NG2]
IsNextGen(header) == header.ok /\ header.version \in {FALLOUT_4_NG, FALLOUT_4_NG2}

\* f.seek(pos); f.write(data) on a file opened 'r+b'
WriteAt(bytes, pos, data) ==
    [i \in 1..(IF pos + Len(data) > Len(bytes) THEN pos + Len(data) ELSE Len(bytes)) |->
        IF i > pos /\ i <= pos + Len(data) THEN data[i - pos]
        ELSE IF i <= Len(bytes) THEN bytes[i] ELSE 0]

\* dlc_groups, in the order of the dict
PrefixRobot == <<"D","L","C","R","o","b","o","t">>
PrefixCoast == <<"D","L","C","C","o","a","s","t">>
PrefixNukaWorld == <<"D","L","C","N","u","k","a","W","o","r","l","d">>
PrefixWorkshop == <<"D","L","C","w","o","r","k","s","h","o","p">>
DlcGroups == << <<PrefixRobot>>, <<PrefixCoast>>, <<PrefixNukaWorld>>, <<PrefixWorkshop>> >>

\* str.startswith
StartsWith(s, prefix) ==
    Len(prefix) <= Len(s) /\ SubSeq(s, 1, Len(prefix)) = prefix

\* any(ba2_file.name.startswith(prefix) for prefix in prefixes)
InGroup(name, g) == \E k \in 1..Len(DlcGroups[g]) : StartsWith(name, DlcGroups[g][k])

SuffixMain == <<" ","-"," ","M","a","i","n",".","b","a","2">>
SuffixTextures == <<" ","-"," ","T","e","x","t","u","r","e","s",".","b","a","2">>
PrefixFallout4 == <<"F","a","l","l","o","u","t","4">>
ArchiveNames ==
    << PrefixRobot \o SuffixMain, PrefixRobot \o SuffixTextures,
       PrefixCoast \o SuffixMain, PrefixFallout4 \o SuffixMain >>

\* the bytes of an archive: header and two bytes of records
ArchiveBytes(magic, versionBytes) ==
    magic \o versionBytes \o FormatGNRL \o <<3, 0, 0, 0>> \o <<170, 4>>

\* version fields: 1, 7, 8 and a value whose low byte alone is 8
VersionFields == { <<1, 0, 0, 0>>, <<7, 0, 0, 0>>, <<8, 0, 0, 0>>, <<8, 0, 0, 1>> }

\* what one *.ba2 file can hold
ArchiveContents ==
    { [bytes |-> ArchiveBytes(m, v), readable |-> TRUE] :
          m \in {MagicBTDX, MagicOther}, v \in VersionFields }
    \cup { [bytes |-> SubSeq(ArchiveBytes(MagicBTDX, <<8, 0, 0, 0>>), 1, HeaderLen - 1),
            readable |-> TRUE],
           [bytes |-> ArchiveBytes(MagicBTDX, <<8, 0, 0, 0>>), readable |-> FALSE] }

\* increasing index sequences of length n over 1..k
Increasing(n, k) ==
    { q \in [1..n -> 1..k] : \A i \in 1..n : \A j \in 1..n : i < j => q[i] < q[j] }

\* the directories data_path.glob("*.ba2") can list
ArchiveDirs ==
    UNION { { [i \in 1..n |-> [name |-> ArchiveNames[q[i]], bytes |-> c[i].bytes,
                               readable |-> c[i].readable]] :
                q \in Increasing(n, Len(ArchiveNames)), c \in [1..n -> ArchiveContents] } :
            n \in 0..MaxArchives }

\* the files dir[i..] of group g that are next-gen, as (file, group) pairs:
\* find_dlc_ba2_status marks the group, get_dlc_needing_downgrade filters it
RECURSIVE NextGenFiles(_, _, _)
NextGenFiles(dir, g, i) ==
    IF i > Len(dir) THEN <<>>
    ELSE (IF InGroup(dir[i].name, g) /\ IsNextGen(FromFile(dir[i]))
          THEN <<[file |-> i, group |-> g]>> ELSE <<>>)
         \o NextGenFiles(dir, g, i + 1)

\* get_dlc_needing_downgrade, the groups from g on
RECURSIVE NeedingDowngrade(_, _)
NeedingDowngrade(dir, g) ==
    IF g > Len(DlcGroups) THEN <<>>
    ELSE NextGenFiles(dir, g, 1) \o NeedingDowngrade(dir, g + 1)

\* the headers find_dlc_ba2_status reads: every file of a group
HeadersRead(dir, seen) ==
    [i \in 1..Len(dir) |->
        IF \E g \in 1..Len(DlcGroups) : InGroup(dir[i].name, g)
        THEN [read |-> TRUE, hdr |-> FromFile(dir[i])]
        ELSE seen[i]]

\* a success count that grows with every file handled
CountAlways(count, ok) == count + 1

\* if self.downgrade_ba2_file(...): success_count += 1
CountAfter(count, ok) == IF ok THEN count + 1 ELSE count

\* (success_count, downgraded_by_dlc): groups with an empty list get no key
Returned(count, byDlc) ==
    [count |-> count,
     byDlc |-> { <<g, byDlc[g]>> : g \in { h \in DOMAIN byDlc : byDlc[h] # <<>> } }]

\* a downgrader is about to run on a data directory
InitBa2 ==
    /\ ba2Dir \in ArchiveDirs
    /\ dgPc = "idle" /\ dgRun = 0 /\ dgNeed = <<>> /\ dgPos = 1 /\ dgCount = 0
    /\ dgByDlc = <<>> /\ dgResults = <<>> /\ dgSnap = <<>>
    /\ dgWritten = {} /\ dgWriteFailed = {}
    /\ hdrSeen = [i \in 1..Len(ba2Dir) |-> [read |-> FALSE, hdr |-> NoHeader]]
    /\ faults = 0
    /\ CopyIdle /\ PatchIdle /\ ResIdle /\ WcIdle /\ UpdIdle /\ MlIdle /\ ExtraIdle

\* a call of downgrade_dlc_ba2_files ends
DgEnds(count, byDlc) ==
    /\ dgPc' = "done" /\ dgRun' = dgRun + 1
    /\ dgResults' = Append(dgResults, Returned(count, byDlc))
    /\ dgSnap' = IF dgRun = 0 THEN ba2Dir' ELSE dgSnap

\* downgrade_dlc_ba2_files up to the loop: get_dlc_needing_downgrade and
\* `if not dlc_needing_downgrade: return 0, {}`
DgStart ==
    /\ dgPc \in {"idle", "done"} /\ dgRun < MaxRuns
    /\ LET need == NeedingDowngrade(ba2Dir, 1) IN
       /\ dgNeed' = need
       /\ hdrSeen' = HeadersRead(ba2Dir, hdrSeen)
       /\ dgPos' = 1 /\ dgCount' = 0
       /\ dgByDlc' = [g \in 1..Len(DlcGroups) |-> <<>>]
       /\ dgWritten' = {} /\ dgWriteFailed' = {}
       /\ ba2Dir' = ba2Dir
       /\ IF need = <<>>
          THEN DgEnds(0, <<>>)
          ELSE dgPc' = "loop" /\ UNCHANGED <<dgRun, dgResults, dgSnap>>
    /\ UNCHANGED <<faults, notDgVars>>

\* what the loop does with the result of downgrade_ba2_file
DgRecord(f, g, ok) ==
    /\ dgCount' = CountAfter(dgCount, ok)
    /\ dgByDlc' = IF ok THEN [dgByDlc EXCEPT ![g] = Append(@, f)] ELSE dgByDlc
    /\ dgPos' = dgPos + 1

\* one turn of the loop: downgrade_ba2_file on the next file
DgFile ==
    /\ dgPc = "loop" /\ dgPos <= Len(dgNeed)
    /\ LET f == dgNeed[dgPos].file
           g == dgNeed[dgPos].group
           header == FromFile(ba2Dir[f])
       IN
       /\ hdrSeen' = [hdrSeen EXCEPT ![f] = [read |-> TRUE, hdr |-> header]]
       /\ IF ~header.ok
          THEN DgRecord(f, g, FALSE) /\ UNCHANGED <<ba2Dir, dgWritten, dgWriteFailed, faults>>
          ELSE IF header.version = FALLOUT_4
          THEN DgRecord(f, g, TRUE) /\ UNCHANGED <<ba2Dir, dgWritten, dgWriteFailed, faults>>
          ELSE IF ~IsNextGen(header)
          THEN DgRecord(f, g, FALSE) /\ UNCHANGED <<ba2Dir, dgWritten, dgWriteFailed, faults>>
          ELSE \/ \* open(file_path, 'r+b'); f.seek(4); f.write(...)
                  /\ ba2Dir' = [ba2Dir EXCEPT
                                  ![f].bytes = WriteAt(@, VersionOffset, PackLE(FALLOUT_4))]
                  /\ dgWritten' = dgWritten \cup {f}
                  /\ DgRecord(f, g, TRUE)
                  /\ UNCHANGED <<dgWriteFailed, faults>>
               \/ \* open raises: the except block returns False
                  /\ faults < MaxFaults /\ faults' = faults + 1
                  /\ dgWriteFailed' = dgWriteFailed \cup {f}
                  /\ DgRecord(f, g, FALSE)
                  /\ UNCHANGED <<ba2Dir, dgWritten>>
    /\ UNCHANGED <<dgPc, dgRun, dgNeed, dgResults, dgSnap, notDgVars>>

\* the loop is over: return success_count, downgraded_by_dlc
DgFinish ==
    /\ dgPc = "loop" /\ dgPos > Len(dgNeed)
    /\ ba2Dir' = ba2Dir
    /\ DgEnds(dgCount, dgByDlc)
    /\ UNCHANGED <<dgNeed, dgPos, dgCount, dgByDlc, dgWritten, dgWriteFailed, hdrSeen,
                   faults, notDgVars>>

NextBa2 == DgStart \/ DgFile \/ DgFinish

\* runs of the downgrader
SpecBa2 == InitBa2 /\ [][NextBa2]_vars

-----------------------------------------------------------------------------
(* Properties of the BA2 header and the downgrader *)

\* old and new differ at most in bytes 4-7 (positions 5..8 of the sequence)
SameOutsideVersion(old, new) ==
    /\ Len(new) = Len(old)
    /\ \A k \in 1..Len(old) : (k < 5 \/ k > 8) => new[k] = old[k]

\* C11: a step that changes the bytes of an archive changes only bytes 4-7:
\* the length, bytes 0-3, bytes 8-15 and every later byte are kept, and the
\* header read again has the same magic, format tag and entry count and the
\* compatible version code 1.
C11_HeaderRewriteFrame ==
    [][\A i \in 1..Len(ba2Dir) :
          ba2Dir'[i].bytes # ba2Dir[i].bytes =>
             /\ SameOutsideVersion(ba2Dir[i].bytes, ba2Dir'[i].bytes)
             /\ LET old == FromFile(ba2Dir[i])
                    new == FromFile(ba2Dir'[i])
                IN /\ old.ok /\ new.ok
                   /\ new.magic = old.magic /\ new.format = old.format
                   /\ new.file_count = old.file_count
                   /\ new.version = 1]_vars

\* an archive whose version field was 7 or 8 has been rewritten
C11_Witness ==
    \E i \in dgWritten :
        /\ SubSeq(ba2Dir[i].bytes, 5, 8) = <<1, 0, 0, 0>>
        /\ Len(ba2Dir[i].bytes) > 16
        /\ dgPc = "loop"

\* the file cannot give a header: unreadable, short, or a foreign magic
Headerless(file) ==
    \/ ~file.readable
    \/ Len(file.bytes) < 16
    \/ SubSeq(file.bytes, 1, 4) # <<66, 84, 68, 88>>

\* C12: every result of BA2Header.from_file is None exactly when the file
\* cannot be opened, is shorter than 16 bytes or does not start with 'BTDX';
\* a header is returned only for 16 present bytes with the magic, and it
\* carries the fields of those bytes.
C12_InvalidHeaderRejected ==
    \A i \in 1..Len(ba2Dir) :
        hdrSeen[i].read =>
            /\ hdrSeen[i].hdr.ok <=> ~Headerless(ba2Dir[i])
            /\ hdrSeen[i].hdr.ok => hdrSeen[i].hdr.magic = <<66, 84, 68, 88>>

\* from_file has returned None for a readable file of 16 bytes or more with
\* a foreign magic, and a header for a well-formed file
C12_Witness ==
    /\ \E i \in 1..Len(ba2Dir) :
          /\ hdrSeen[i].read /\ ~hdrSeen[i].hdr.ok
          /\ ba2Dir[i].readable /\ Len(ba2Dir[i].bytes) >= 16
    /\ \E i \in 1..Len(ba2Dir) : hdrSeen[i].read /\ hdrSeen[i].hdr.ok

\* C13: when no write fails, every call of downgrade_dlc_ba2_files after the
\* first leaves the archives as the first call left them and returns the
\* success count 0 and an empty per-group map.
C13_NormalizeIdempotent ==
    (faults = 0 /\ dgRun >= 2) =>
        /\ ba2Dir = dgSnap
        /\ \A r \in 2..dgRun : dgResults[r] = [count |-> 0, byDlc |-> {}]

\* the first call rewrote an archive and a second call has returned
C13_Witness ==
    /\ faults = 0 /\ dgRun >= 2
    /\ dgResults[1].count >= 1
    /\ dgResults[2].count = 0

\* the file indices named in a returned per-group map
ReturnedFiles(result) ==
    { f \in 1..Len(ba2Dir) : \E e \in result.byDlc : \E k \in 1..Len(e[2]) : e[2][k] = f }

\* C14: when a call of downgrade_dlc_ba2_files has returned, every archive
\* that needed normalization was either rewritten or failed, the success
\* count is the number of archives rewritten, the per-group map names exactly
\* the rewritten archives, and so no archive whose rewrite failed.
C14_PartialSuccess ==
    (dgPc = "done") =>
        LET result == dgResults[Len(dgResults)] IN
        /\ \A k \in 1..Len(dgNeed) : dgNeed[k].file \in dgWritten \cup dgWriteFailed
        /\ result.count = Cardinality(dgWritten)
        /\ ReturnedFiles(result) = dgWritten
        /\ ReturnedFiles(result) \cap dgWriteFailed = {}
        /\ \A f \in dgWritten : FromFile(ba2Dir[f]).version = 1

\* the first archive's rewrite failed and the next one was still rewritten
C14_Witness ==
    /\ dgPc = "done" /\ Len(dgNeed) >= 2
    /\ dgNeed[1].file \in dgWriteFailed
    /\ dgNeed[2].file \in dgWritten
    /\ dgResults[Len(dgResults)].count = 1

-----------------------------------------------------------------------------
(* The DLC resolver: detect_dlc_in_both_games and                          *)
(* _scan_single_directory_for_dlc                                          *)

ExtEsm == <<".","e","s","m">>
ExtBa2 == <<".","b","a","2">>
SepDash == <<" ","-"," ">>
Dot == <<".">>

\* two entries of the catalog dlc_info: esm and ba2_prefixes
DlcCatalog ==
    << [esm |-> PrefixRobot \o ExtEsm, ba2_prefixes |-> <<PrefixRobot>>],
       [esm |-> PrefixCoast \o ExtEsm, ba2_prefixes |-> <<PrefixCoast>>] >>

\* source_name of the scanned directories, in the order of the calls
SourceNames ==
    << "Fallout 4 DLC", "Fallout 4 DLC", "Fallout 4 VR", "Fallout London", "Fallout London" >>

\* str.endswith
EndsWith(s, suffix) ==
    Len(suffix) <= Len(s) /\ SubSeq(s, Len(s) - Len(suffix) + 1, Len(s)) = suffix

\* the positions at which sep occurs in s
Occurrences(s, sep) ==
    { i \in 1..Len(s) : i + Len(sep) - 1 <= Len(s) /\ SubSeq(s, i, i + Len(sep) - 1) = sep }

\* s.split(sep)[0]
SplitFirst(s, sep) ==
    IF Occurrences(s, sep) = {} THEN s
    ELSE LET i == CHOOSE k \in Occurrences(s, sep) : \A j \in Occurrences(s, sep) : k <= j
         IN SubSeq(s, 1, i - 1)

\* file_name.split(' - ')[0] if ' - ' in file_name else file_name.split('.')[0]
Ba2Prefix(file_name) ==
    IF Contains(SepDash, file_name) THEN SplitFirst(file_name, SepDash)
    ELSE SplitFirst(file_name, Dot)

\* esm_map: the names of the files whose lowered name ends with .esm
EsmMap(dir) == { f.name : f \in { x \in dir : EndsWith(Lower(x.name), ExtEsm) } }

\* ba2_map[prefix]: the other files whose lowered name ends with .ba2
Ba2Map(dir, prefix) ==
    { f \in dir : /\ ~EndsWith(Lower(f.name), ExtEsm)
                  /\ EndsWith(Lower(f.name), ExtBa2)
                  /\ Ba2Prefix(f.name) = prefix }

\* the matching BA2 files of a catalog entry in a directory
MatchingBa2(dir, entry) ==
    UNION { Ba2Map(dir, entry.ba2_prefixes[k]) : k \in 1..Len(entry.ba2_prefixes) }

\* is_ng after the loop over the matching files
IsNg(dir, entry) == \E f \in MatchingBa2(dir, entry) : IsNextGen(FromFile(f))

\* truth value of dlc_data.get("is_next_gen")
Truthy(x) == x = "True"

\* an update rule that keeps whatever was found first
FirstFoundOnly(data, is_ng) == data.found_in = "None"

\* dlc_data["found_in"] is None or (not is_ng and dlc_data.get("is_next_gen"))
Supersedes(data, is_ng) ==
    data.found_in = "None" \/ (~is_ng /\ Truthy(data.is_next_gen))

\* a catalog entry before any scan
Unresolved == [found_in |-> "None", dir |-> 0, ba2_paths |-> {}, is_next_gen |-> "None"]

\* the body of the matching loop for one catalog entry
ScanEntry(d, dir, entry, data) ==
    IF entry.esm \in EsmMap(dir) /\ Supersedes(data, IsNg(dir, entry))
    THEN [found_in |-> SourceNames[d], dir |-> d,
          ba2_paths |-> { f.name : f \in MatchingBa2(dir, entry) },
          is_next_gen |-> IF IsNg(dir, entry) THEN "True" ELSE "False"]
    ELSE data

\* the files a scanned directory can hold
EsmFile(prefix) == [name |-> prefix \o ExtEsm, bytes |-> <<>>, readable |-> TRUE]
Ba2File(prefix, suffix, versionBytes) ==
    [name |-> prefix \o suffix, bytes |-> ArchiveBytes(MagicBTDX, versionBytes),
     readable |-> TRUE]
Optional(x) == { {}, {x} }
ScanDirContents ==
    { a \cup b \cup c \cup e :
        a \in Optional(EsmFile(PrefixRobot)),
        b \in Optional(Ba2File(PrefixRobot, SuffixMain, <<1, 0, 0, 0>>))
              \cup { {Ba2File(PrefixRobot, SuffixMain, <<8, 0, 0, 0>>)} },
        c \in Optional(Ba2File(PrefixRobot, SuffixTextures, <<7, 0, 0, 0>>)),
        e \in { {}, {EsmFile(PrefixCoast), Ba2File(PrefixCoast, SuffixMain, <<8, 0, 0, 0>>)} } }

\* detect_dlc_in_both_games starts with nothing resolved
InitDlc ==
    /\ \E n \in 1..MaxDirs : scanDirs \in [1..n -> ScanDirContents]
    /\ scanPos = 1
    /\ dlcInfo = [g \in 1..Len(DlcCatalog) |-> Unresolved]
    /\ faults = 0
    /\ CopyIdle /\ PatchIdle /\ Ba2Idle /\ WcIdle /\ UpdIdle /\ MlIdle /\ ExtraIdle

\* one call of _scan_single_directory_for_dlc
ScanDirectory ==
    /\ scanPos <= Len(scanDirs)
    /\ dlcInfo' = [g \in 1..Len(DlcCatalog) |->
                     ScanEntry(scanPos, scanDirs[scanPos], DlcCatalog[g], dlcInfo[g])]
    /\ scanPos' = scanPos + 1
    /\ UNCHANGED <<scanDirs, notResVars>>

NextDlc == ScanDirectory

\* runs of the resolver
SpecDlc == InitDlc /\ [][NextDlc]_vars

-----------------------------------------------------------------------------
(* Properties of the resolver *)

\* the directory holds the metadata file of the entry
HoldsEsm(dir, entry) == \E f \in dir : f.name = entry.esm

\* the archives of the entry in the directory: NAME - xxx.ba2 or NAME.ba2
ArchivesOf(dir, entry) ==
    { f \in dir : \E k \in 1..Len(entry.ba2_prefixes) :
         /\ EndsWith(f.name, ExtBa2)
         /\ \/ StartsWith(f.name, entry.ba2_prefixes[k] \o SepDash)
            \/ f.name = entry.ba2_prefixes[k] \o ExtBa2 }

\* one of the archives carries the version code 7 or 8
Incompatible(dir, entry) ==
    \E f \in ArchivesOf(dir, entry) :
        /\ f.readable /\ Len(f.bytes) >= 16 /\ SubSeq(f.bytes, 1, 4) = <<66, 84, 68, 88>>
        /\ SubSeq(f.bytes, 5, 8) \in { <<7, 0, 0, 0>>, <<8, 0, 0, 0>> }

C16_ResolverPresence ==
    \A g \in 1..Len(DlcCatalog) :
        dlcInfo[g].dir # 0 =>
            /\ HoldsEsm(scanDirs[dlcInfo[g].dir], DlcCatalog[g])
            /\ ArchivesOf(scanDirs[dlcInfo[g].dir], DlcCatalog[g]) # {}

-----------------------------------------------------------------------------
(* The dynamic worker calculation of copy_directory_parallel *)

\* os.cpu_count() or 4
DefaultCpu == 4
CpuOrDefault(c) == IF c = 0 THEN DefaultCpu ELSE c

\* int(available_memory_gb * 2), the memory counted in units of 256 MiB
MemoryWorkers(mem) == mem \div 2

WorkerCap == 16
WorkerFloor == 2
FallbackCap == 8

\* a calculation without the lower bound
DynamicNoFloor(cpu, mem) == Min(Min(cpu * 2, MemoryWorkers(mem)), WorkerCap)

\* max(min(base_workers, memory_workers, 16), 2)
DynamicWorkers(cpu, mem) ==
    LET capped == Min(Min(cpu * 2, MemoryWorkers(mem)), WorkerCap)
    IN IF capped >= WorkerFloor THEN capped ELSE WorkerFloor

\* min(cpu_count * 2, 8)
FallbackWorkers(cpu) == Min(cpu * 2, FallbackCap)

\* copy_directory_parallel is called with max_workers=None
InitWorkers ==
    /\ cpuCount \in 0..MaxCpu
    /\ availMem \in 0..MaxMem
    /\ psutilOk \in BOOLEAN
    /\ wcPc = "entry"
    /\ faults = 0
    /\ CopyIdle /\ PatchIdle /\ Ba2Idle /\ ResIdle /\ UpdIdle /\ MlIdle /\ ExtraIdle

\* `if max_workers is None:` with its try and its bare except
ComputeWorkers ==
    /\ wcPc = "entry"
    /\ maxWorkers' = IF psutilOk
                     THEN DynamicWorkers(CpuOrDefault(cpuCount), availMem)
                     ELSE FallbackWorkers(CpuOrDefault(cpuCount))
    /\ wcPc' = "done"
    /\ UNCHANGED <<variant, srcDir, srcTree, excludeDirs, excludeFiles, cancel, copyPc,
                   manifest, nextTask, wk, fut, doneQ, dest, counter, failed, filesCopied,
                   completedCount, uiLast, outcome, cpuCount, availMem, psutilOk,
                   patchVars, dgVars, resVars, retryVars, updVars, mlVars, faults,
                   extraVars>>

NextWorkers == ComputeWorkers

\* the worker calculation for every machine
SpecWorkers == InitWorkers /\ [][NextWorkers]_vars

\* C17: the worker count copy_directory_parallel computes itself is within
\* [2, 16], for every CPU count, unknown included, every amount of available
\* memory, and on the fallback branch as well.
C17_WorkerBound == wcPc = "done" => (maxWorkers >= 2 /\ maxWorkers <= 16)

\* the calculation has run with an unknown CPU count and too little memory
\* for one worker
C17_Witness ==
    /\ wcPc = "done" /\ psutilOk /\ cpuCount = 0 /\ availMem = 1 /\ maxWorkers = 2

-----------------------------------------------------------------------------
(* Properties of the per-file error handling of the tree copiers *)

\* C18: a file whose copy is given up after a permission error has been
\* attempted exactly twice, the first attempt and one retry; a file given up
\* after any other exception has been attempted exactly once.
C18_PermissionRetry ==
    \A f \in Ids :
        fut[f] = "failed" =>
            /\ errKind[f] = "permission" => tries[f] = 2
            /\ errKind[f] = "other" => tries[f] = 1

-----------------------------------------------------------------------------
(* Step 2 of perform_update: copy_mo2_assets inside its retry loop *)

NameModOrganizerIni == <<"M","o","d","O","r","g","a","n","i","z","e","r",".","i","n","i">>
NameModlistTxt == <<"m","o","d","l","i","s","t",".","t","x","t">>

\* the update is about to copy the mod assets over an existing installation
InitUpdate ==
    /\ variant = "parallel"
    /\ srcDir = PlainSrcDir
    /\ srcTree \in { FlatTree([i \in 1..n |-> IF i = 1 THEN 1 ELSE 0]) :
                       n \in {1, MaxRatioFiles} }
    /\ excludeDirs = <<NameSource, NameScriptsSource>>
    /\ excludeFiles = <<NameModOrganizerIni, NameModlistTxt>>
    /\ maxWorkers = 1
    /\ cancel = FALSE /\ copyPc = "idle" /\ manifest = <<>> /\ nextTask = 1
    /\ wk = [w \in 1..maxWorkers |-> Idle]
    /\ fut = [i \in Ids |-> "none"]
    /\ doneQ = <<>>
    /\ dest = [i \in Ids |-> 0]
    /\ counter = 0 /\ failed = <<>> /\ filesCopied = 0 /\ completedCount = 0
    /\ uiLast = -1 /\ outcome = "none" /\ faults = 0
    /\ errKind = [i \in Ids |-> "none"]
    /\ tries = [i \in Ids |-> 0]
    /\ updPc = "extract" /\ dialogs = 0
    /\ PatchIdle /\ Ba2Idle /\ ResIdle /\ WcIdle /\ MlIdle /\ ExtraIdle

\* the locals of a fresh call of copy_directory_parallel
CopyFresh ==
    /\ copyPc' = "call" /\ manifest' = <<>> /\ nextTask' = 1
    /\ wk' = [w \in 1..maxWorkers |-> Idle]
    /\ fut' = [i \in Ids |-> "none"]
    /\ doneQ' = <<>>
    /\ counter' = 0 /\ failed' = <<>> /\ filesCopied' = 0 /\ completedCount' = 0
    /\ uiLast' = -1 /\ outcome' = "none"
    /\ errKind' = [i \in Ids |-> "none"]
    /\ tries' = [i \in Ids |-> 0]

\* copy_mo2_assets up to the call of the copier: the extraction of MO2.7z,
\* whose exception is raised again
UpdExtract ==
    /\ updPc = "extract"
    /\ \/ /\ updPc' = "copying" /\ CopyFresh /\ faults' = faults
       \/ /\ faults < MaxFaults /\ faults' = faults + 1
          /\ \E kind \in {"permission", "other"} :
                updPc' = IF kind = "permission" THEN "dialog" ELSE "error"
          /\ UNCHANGED <<copyPc, manifest, nextTask, wk, fut, doneQ, counter, failed,
                         filesCopied, completedCount, uiLast, outcome, retryVars>>
    /\ UNCHANGED <<variant, srcDir, srcTree, excludeDirs, excludeFiles, maxWorkers,
                   cancel, dest, dialogs, patchVars, dgVars, resVars, wcVars, mlVars,
                   extraVars>>

\* the copier has ended: `break` when it returned, the `except Exception`
\* branch when it raised "Too many copy failures"
UpdAfterCopy ==
    /\ updPc = "copying" /\ copyPc \in {"returned", "raised"}
    /\ updPc' = IF outcome = "true" THEN "merge" ELSE "error"
    /\ copyPc' = "idle"
    /\ UNCHANGED <<variant, srcDir, srcTree, excludeDirs, excludeFiles, maxWorkers,
                   cancel, manifest, nextTask, wk, fut, doneQ, dest, counter, failed,
                   filesCopied, completedCount, uiLast, outcome, retryVars, dialogs,
                   faults, patchVars, dgVars, resVars, wcVars, mlVars,
                   extraVars>>

\* except PermissionError: handle_files_in_use("file copying"), Retry or Cancel
UpdDialog ==
    /\ updPc = "dialog"
    /\ dialogs' = dialogs + 1
    /\ \E retry \in BOOLEAN : updPc' = IF retry THEN "extract" ELSE "cancelled"
    /\ UNCHANGED <<copyVars, retryVars, faults, patchVars, dgVars, resVars, wcVars, mlVars,
                   extraVars>>

NextUpdate ==
    \/ NextParallel
    \/ UpdExtract
    \/ UpdAfterCopy
    \/ UpdDialog

\* the copy step of an update
SpecUpdate == InitUpdate /\ [][NextUpdate]_vars

\* C19: the update goes on to its next step only if no destination file of
\* the copy it has just made was locked: a lock is answered by the
\* retry-or-cancel dialog, never taken as a tolerated per-file failure.
C19_LockSurfaced ==
    updPc = "merge" => \A f \in Ids : errKind[f] # "permission"

-----------------------------------------------------------------------------
(* merge_modlist_txt *)

NL == "\n"
Blank == {" ", NL}

\* str.strip()
RECURSIVE LStrip(_)
LStrip(s) == IF s # <<>> /\ Head(s) \in Blank THEN LStrip(Tail(s)) ELSE s
RECURSIVE RStrip(_)
RStrip(s) ==
    IF s # <<>> /\ s[Len(s)] \in Blank THEN RStrip(SubSeq(s, 1, Len(s) - 1)) ELSE s
Strip(s) == RStrip(LStrip(s))

\* f.readlines(): the text cut after every newline
RECURSIVE ReadLinesFrom(_, _)
ReadLinesFrom(text, line) ==
    IF text = <<>> THEN (IF line = <<>> THEN <<>> ELSE <<line>>)
    ELSE IF Head(text) = NL
         THEN <<Append(line, NL)>> \o ReadLinesFrom(Tail(text), <<>>)
         ELSE ReadLinesFrom(Tail(text), Append(line, Head(text)))
ReadLines(text) == ReadLinesFrom(text, <<>>)

\* f.writelines(lines)
RECURSIVE WriteLines(_)
WriteLines(lines) == IF lines = <<>> THEN <<>> ELSE Head(lines) \o WriteLines(Tail(lines))

\* parse_mod_name; <<>> stands for None and for the empty name, both falsy
ParseModName(line) ==
    LET l == Strip(line) IN
    IF l # <<>> /\ Head(l) \in {"+", "-"} THEN Strip(Tail(l)) ELSE <<>>

\* the mod names of a list of lines, in order
RECURSIVE ModsOf(_)
ModsOf(lines) ==
    IF lines = <<>> THEN <<>>
    ELSE (IF ParseModName(Head(lines)) # <<>> THEN <<ParseModName(Head(lines))>> ELSE <<>>)
         \o ModsOf(Tail(lines))

\* source_mod_lines[name]: the stripped line of the last entry with that name
SourceModLine(source_lines, name) ==
    LET hits == { i \in 1..Len(source_lines) : ParseModName(source_lines[i]) = name }
        last == CHOOSE i \in hits : \A j \in hits : j <= i
    IN Strip(source_lines[last])

\* list.index, counted from 1
IndexOf(list, x) == CHOOSE i \in 1..Len(list) : list[i] = x /\ \A j \in 1..(i - 1) : list[j] # x

\* [m for m in source_mods if m not in user_mod_set]
RECURSIVE MissingMods(_, _)
MissingMods(source_mods, user_mods) ==
    IF source_mods = <<>> THEN <<>>
    ELSE (IF InList(Head(source_mods), user_mods) THEN <<>> ELSE <<Head(source_mods)>>)
         \o MissingMods(Tail(source_mods), user_mods)

\* list.remove: without the first occurrence of x
RECURSIVE Remove(_, _)
Remove(list, x) ==
    IF list = <<>> THEN <<>>
    ELSE IF Head(list) = x THEN Tail(list) ELSE <<Head(list)>> \o Remove(Tail(list), x)

\* the leading lines that are comments or blank
RECURSIVE HeaderCount(_)
HeaderCount(lines) ==
    IF lines # <<>> /\ (Strip(Head(lines)) = <<>> \/ Head(Strip(Head(lines))) = "#")
    THEN 1 + HeaderCount(Tail(lines)) ELSE 0

\* `for missing_mod in missing_mods[:]` before the user mod mod_name: the
\* lines inserted and the missing mods left
RECURSIVE InsertBefore(_, _, _, _, _)
InsertBefore(snapshot, missing, mod_name, source_lines, out) ==
    IF snapshot = <<>> THEN [out |-> out, missing |-> missing]
    ELSE LET source_mods == ModsOf(source_lines)
             missing_mod == Head(snapshot)
             missing_idx == IndexOf(source_mods, missing_mod)
             current_idx == IF InList(mod_name, source_mods)
                            THEN IndexOf(source_mods, mod_name)
                            ELSE Len(source_mods) + 1
         IN IF missing_idx < current_idx
            THEN InsertBefore(Tail(snapshot), Remove(missing, missing_mod), mod_name,
                     source_lines,
                     Append(out, Append(SourceModLine(source_lines, missing_mod), NL)))
            ELSE InsertBefore(Tail(snapshot), missing, mod_name, source_lines, out)

\* `for i, line in enumerate(user_lines[header_count:])`
RECURSIVE ProcessLines(_, _, _, _)
ProcessLines(lines, missing, source_lines, out) ==
    IF lines = <<>> THEN [out |-> out, missing |-> missing]
    ELSE LET mod_name == ParseModName(Head(lines))
             r == IF mod_name # <<>>
                  THEN InsertBefore(missing, missing, mod_name, source_lines, out)
                  ELSE [out |-> out, missing |-> missing]
         IN ProcessLines(Tail(lines), r.missing, source_lines, Append(r.out, Head(lines)))

\* the remaining missing mods, appended at the end
RECURSIVE AppendMissing(_, _, _)
AppendMissing(missing, source_lines, out) ==
    IF missing = <<>> THEN out
    ELSE AppendMissing(Tail(missing), source_lines,
             Append(out, Append(SourceModLine(source_lines, Head(missing)), NL)))

\* result_lines of merge_modlist_txt
ResultLines(user_lines, source_lines) ==
    LET header_count == HeaderCount(user_lines)
        missing == MissingMods(ModsOf(source_lines), ModsOf(user_lines))
        r == ProcessLines(SubSeq(user_lines, header_count + 1, Len(user_lines)), missing,
                          source_lines, SubSeq(user_lines, 1, header_count))
    IN AppendMissing(r.missing, source_lines, r.out)

\* the text of the user's modlist.txt after merge_modlist_txt
MergedText(user_text, source_text) ==
    LET user_lines == ReadLines(user_text)
        source_lines == ReadLines(source_text)
    IN IF MissingMods(ModsOf(source_lines), ModsOf(user_lines)) = <<>>
       THEN user_text
       ELSE WriteLines(ResultLines(user_lines, source_lines))

\* the lines a user's modlist.txt is made of: update mods, a disabled update
\* mod, a custom mod and a comment
LineA == <<"+", "A">>
LineB == <<"+", "B">>
LineC == <<"+", "C">>
LineCOff == <<"-", "C">>
LineCustom == <<"+", "X">>
LineComment == <<"#", " ", "h">>
UserLineSet == {LineA, LineB, LineCOff, LineCustom, LineComment}
SourceLineSet == {LineA, LineB, LineC}

\* the text of the lines, each followed by a newline except perhaps the last
RECURSIVE TextOf(_, _)
TextOf(lines, closed) ==
    IF lines = <<>> THEN <<>>
    ELSE IF Len(lines) = 1 THEN (IF closed THEN Append(Head(lines), NL) ELSE Head(lines))
    ELSE Append(Head(lines), NL) \o TextOf(Tail(lines), closed)

LinesUpTo(set, n) == UNION { [1..k -> set] : k \in 0..n }

UserTexts ==
    { TextOf(ls, closed) : ls \in LinesUpTo(UserLineSet, MaxUserLines), closed \in BOOLEAN }
SourceTexts ==
    { TextOf(ls, TRUE) : ls \in LinesUpTo(SourceLineSet, MaxSourceLines) \ {<<>>} }

\* what a mod-list merge leaves alone
\* the variables of the components modelled before the lock-level copier
baseVars == <<copyVars, patchVars, dgVars, resVars, wcVars, updVars, mlVars, retryVars>>

notMlVars == <<copyVars, patchVars, dgVars, resVars, wcVars, updVars, retryVars, faults,
               extraVars>>

\* before merge_modlist_txt is called: the installation has a modlist.txt or
\* none, the update package has one
InitModlist ==
    /\ userExists \in BOOLEAN
    /\ userText \in (IF userExists THEN UserTexts ELSE {<<>>})
    /\ userOrig = userText
    /\ sourceText \in SourceTexts
    /\ mlPc = "entry"
    /\ faults = 0
    /\ CopyIdle /\ PatchIdle /\ Ba2Idle /\ ResIdle /\ WcIdle /\ UpdIdle /\ ExtraIdle

\* `if not os.path.exists(user_modlist_path):` shutil.copy2 of the source
MergeCopySource ==
    /\ mlPc = "entry"
    /\ ~userExists
    /\ userExists' = TRUE
    /\ userText' = sourceText
    /\ mlPc' = "done"
    /\ UNCHANGED <<userOrig, sourceText, notMlVars>>

\* the merge into an existing modlist.txt
MergeExisting ==
    /\ mlPc = "entry"
    /\ userExists
    /\ userText' = MergedText(userText, sourceText)
    /\ mlPc' = "done"
    /\ UNCHANGED <<userExists, userOrig, sourceText, notMlVars>>

NextModlist == MergeCopySource \/ MergeExisting

SpecModlist == InitModlist /\ [][NextModlist]_vars

\* a line without its line terminator
Content(line) ==
    IF line # <<>> /\ line[Len(line)] = NL THEN SubSeq(line, 1, Len(line) - 1) ELSE line
Contents(lines) == [i \in 1..Len(lines) |-> Content(lines[i])]

\* a occurs in b in the same relative order
RECURSIVE IsSubsequence(_, _)
IsSubsequence(a, b) ==
    IF a = <<>> THEN TRUE
    ELSE IF b = <<>> THEN FALSE
    ELSE IF Head(a) = Head(b) THEN IsSubsequence(Tail(a), Tail(b))
    ELSE IsSubsequence(a, Tail(b))

\* C20: after merge_modlist_txt every line of the user's former modlist.txt is
\* a line of the result, in the same relative order, and every mod the
\* update's list names is named by a line of the result.
C20_MergePreservesUserList ==
    mlPc = "done" =>
        /\ IsSubsequence(Contents(ReadLines(userOrig)), Contents(ReadLines(userText)))
        /\ \A i \in 1..Len(ModsOf(ReadLines(sourceText))) :
               InList(ModsOf(ReadLines(sourceText))[i], ModsOf(ReadLines(userText)))

-----------------------------------------------------------------------------
(* Properties of the patcher, continued *)

\* the tool exited with code 0 and left an output larger than the sanity floor
Accepted == toolExit = "zero" /\ tempSize > SanityFloor

\* C21: the target holds the tool's output only if the tool exited with code
\* 0 and its output exists and is larger than the sanity floor; and when
\* patch_fallout4_esm returns (no file-system call of the method having
\* failed), the target holds the output if these three hold and its original
\* content in every other case.
C21_PatchAcceptance ==
    /\ esm = "patched" => Accepted
    /\ (PatchEnded /\ faults = 0) =>
           esm = (IF Accepted THEN "patched"
                  ELSE IF TargetExisted THEN "orig" ELSE "absent")

\* the tool exited 0 with an output of exactly the floor size, which was
\* refused: the method returned False and the target is the original
C21_Witness ==
    /\ PatchEnded /\ faults = 0 /\ toolExit = "zero"
    /\ tempSize = SanityFloor /\ patchResult = "false" /\ esm = "orig"

-----------------------------------------------------------------------------
(* Properties of the downgrader, continued *)

\* the version field of the file is 7 or 8 behind a recognized header
CodeIsNextGen(file) ==
    /\ ~Headerless(file)
    /\ SubSeq(file.bytes, 5, 8) \in { <<7, 0, 0, 0>>, <<8, 0, 0, 0>> }

\* C22: in every run, an archive is written to only while its header is
\* recognized and its version code is 7 or 8, and the write leaves the code 1;
\* an archive with the code 1, with any other code or without a recognized
\* header is never written to.
C22_VersionClassification ==
    [][\A i \in 1..Len(ba2Dir) :
          (ba2Dir'[i] # ba2Dir[i] \/ (i \in dgWritten' /\ i \notin dgWritten)) =>
             /\ CodeIsNextGen(ba2Dir[i])
             /\ SubSeq(ba2Dir'[i].bytes, 5, 8) = <<1, 0, 0, 0>>]_vars

\* a call has returned that rewrote one archive of a group and left alone
\* another one of a content group whose header carries a code other than 1, 7
\* and 8
C22_Witness ==
    /\ dgPc = "done" /\ dgWritten # {}
    /\ \E j \in 1..Len(ba2Dir) :
          /\ j \notin dgWritten
          /\ \E g \in 1..Len(DlcGroups) : InGroup(ba2Dir[j].name, g)
          /\ ~Headerless(ba2Dir[j])
          /\ SubSeq(ba2Dir[j].bytes, 5, 8) = <<8, 0, 0, 1>>

-----------------------------------------------------------------------------
(* The parallel copiers at the granularity of their locks:                 *)
(* failed_files_lock and ThreadSafeCounter._lock                           *)

\* the coordinating thread
Coordinator == 0
LockThreads == 0..MaxLockWorkers
\* what the lock-level copier leaves alone
notLockVars == <<baseVars, faults, rmVars, flagVars, rbVars>>

\* the pool is created: copied_counter, failed_files, failed_files_lock are new
InitLock ==
    /\ lkVariant \in {"parallel", "exclusions"}
    /\ lkPc = [t \in LockThreads |-> IF t = Coordinator THEN "pool" ELSE "idle"]
    /\ listLock = -1 /\ ctrLock = -1
    /\ lkNext = 0 /\ lkDoneQ = <<>> /\ lkFailed = 0 /\ lkCounter = 0
    /\ faults = 0
    /\ CopyIdle /\ PatchIdle /\ Ba2Idle /\ ResIdle /\ WcIdle /\ UpdIdle /\ MlIdle
    /\ RmIdle /\ FlagIdle /\ RbIdle

\* a pool thread takes a task: `if self.cancel_requested: raise`, else the
\* try block is entered
LkStart(w) ==
    /\ lkPc[Coordinator] # "returned" /\ lkPc[w] = "idle" /\ lkNext < MaxLockTasks
    /\ lkNext' = lkNext + 1
    /\ \/ lkDoneQ' = Append(lkDoneQ, "raised") /\ lkPc' = lkPc
       \/ lkPc' = [lkPc EXCEPT ![w] = "body"] /\ lkDoneQ' = lkDoneQ
    /\ UNCHANGED <<lkVariant, listLock, ctrLock, lkFailed, lkCounter, notLockVars>>

\* the try block between two calls on shared state: a chunk is written and
\* copied_counter.add is called, or the file is done, or an I/O call raises
LkBody(w) ==
    /\ lkPc[w] = "body"
    /\ \/ /\ lkCounter + Cardinality({ t \in LockThreads : lkPc[t] \in {"add_wait", "add_in"} })
                 < MaxLockChunks
          /\ lkPc' = [lkPc EXCEPT ![w] = "add_wait"] /\ lkDoneQ' = lkDoneQ
       \/ lkPc' = [lkPc EXCEPT ![w] = "idle"] /\ lkDoneQ' = Append(lkDoneQ, "ok")
       \/ lkPc' = [lkPc EXCEPT ![w] = "list_wait"] /\ lkDoneQ' = lkDoneQ
    /\ UNCHANGED <<lkVariant, listLock, ctrLock, lkNext, lkFailed, lkCounter, notLockVars>>

\* `with self._lock:` of ThreadSafeCounter.add and ThreadSafeCounter.get
LkCounterAcquire(t) ==
    /\ lkPc[t] \in {"add_wait", "get_wait"} /\ ctrLock = -1
    /\ ctrLock' = t
    /\ lkPc' = [lkPc EXCEPT ![t] = IF lkPc[t] = "add_wait" THEN "add_in" ELSE "get_in"]
    /\ UNCHANGED <<lkVariant, listLock, lkNext, lkDoneQ, lkFailed, lkCounter, notLockVars>>

\* self._value += amount; return self._value, and the lock is released
LkCounterAdd(w) ==
    /\ lkPc[w] = "add_in"
    /\ lkCounter' = lkCounter + 1
    /\ ctrLock' = -1
    /\ lkPc' = [lkPc EXCEPT ![w] = "body"]
    /\ UNCHANGED <<lkVariant, listLock, lkNext, lkDoneQ, lkFailed, notLockVars>>

\* return self._value, and the lock is released
LkCounterGet ==
    /\ lkPc[Coordinator] = "get_in"
    /\ ctrLock' = -1
    /\ lkPc' = [lkPc EXCEPT ![Coordinator] = "pool"]
    /\ UNCHANGED <<lkVariant, listLock, lkNext, lkDoneQ, lkFailed, lkCounter, notLockVars>>

\* `with failed_files_lock:`
LkListAcquire(t) ==
    /\ lkPc[t] = "list_wait" /\ listLock = -1
    /\ listLock' = t
    /\ lkPc' = [lkPc EXCEPT ![t] = "list_in"]
    /\ UNCHANGED <<lkVariant, ctrLock, lkNext, lkDoneQ, lkFailed, lkCounter, notLockVars>>

\* where the coordinating thread goes after it has dealt with a result: the
\* throttled progress update calls copied_counter.get()
AfterResult == {"pool", "get_wait"}

\* failed_files.append(...) inside the `with` block, and the lock is released;
\* a worker then returns False, src_file, str(e)
LkListAppend(t) ==
    /\ lkPc[t] = "list_in"
    /\ lkFailed' = lkFailed + 1
    /\ listLock' = -1
    /\ IF t = Coordinator
       THEN (\E pc \in AfterResult : lkPc' = [lkPc EXCEPT ![t] = pc]) /\ lkDoneQ' = lkDoneQ
       ELSE lkPc' = [lkPc EXCEPT ![t] = "idle"] /\ lkDoneQ' = Append(lkDoneQ, "failed")
    /\ UNCHANGED <<lkVariant, ctrLock, lkNext, lkCounter, notLockVars>>

\* where the coordinating thread goes with the result of a future: a raised
\* future is appended under the lock by both copiers; a False result is
\* appended, outside any `with` block, by
\* copy_directory_parallel_with_exclusions only
ReapTarget(v, result) ==
    IF result = "raised" THEN {"list_wait"}
    ELSE IF result = "failed" /\ v = "exclusions" THEN {"bare_in"}
    ELSE AfterResult

\* one turn of `for future in as_completed(future_to_file)` up to the append
LkReap ==
    /\ lkPc[Coordinator] = "pool" /\ lkDoneQ # <<>>
    /\ lkDoneQ' = Tail(lkDoneQ)
    /\ \E pc \in ReapTarget(lkVariant, Head(lkDoneQ)) :
          lkPc' = [lkPc EXCEPT ![Coordinator] = pc]
    /\ UNCHANGED <<lkVariant, listLock, ctrLock, lkNext, lkFailed, lkCounter, notLockVars>>

\* `else: failed_files.append((file_path, error))`
LkBareAppend ==
    /\ lkPc[Coordinator] = "bare_in"
    /\ lkFailed' = lkFailed + 1
    /\ \E pc \in AfterResult : lkPc' = [lkPc EXCEPT ![Coordinator] = pc]
    /\ UNCHANGED <<lkVariant, listLock, ctrLock, lkNext, lkDoneQ, lkCounter, notLockVars>>

\* every future has been yielded: the `with ThreadPoolExecutor` block is left
LkFinish ==
    /\ lkPc[Coordinator] = "pool" /\ lkNext = MaxLockTasks /\ lkDoneQ = <<>>
    /\ \A w \in 1..MaxLockWorkers : lkPc[w] = "idle"
    /\ lkPc' = [lkPc EXCEPT ![Coordinator] = "returned"]
    /\ UNCHANGED <<lkVariant, listLock, ctrLock, lkNext, lkDoneQ, lkFailed, lkCounter,
                   notLockVars>>

NextLock ==
    \/ \E w \in 1..MaxLockWorkers : LkStart(w)
    \/ \E w \in 1..MaxLockWorkers : LkBody(w)
    \/ \E t \in LockThreads : LkCounterAcquire(t)
    \/ \E w \in 1..MaxLockWorkers : LkCounterAdd(w)
    \/ LkCounterGet
    \/ \E t \in LockThreads : LkListAcquire(t)
    \/ \E t \in LockThreads : LkListAppend(t)
    \/ LkReap
    \/ LkBareAppend
    \/ LkFinish

\* the threads of one parallel copy
SpecLock == InitLock /\ [][NextLock]_vars

\* the threads that are executing failed_files.append
Appending == { t \in DOMAIN lkPc : lkPc[t] \in {"list_in", "bare_in"} }
\* the threads that are inside a method of the byte counter
InCounter == { t \in DOMAIN lkPc : lkPc[t] \in {"add_in", "get_in"} }

\* C23: in both parallel copiers, a thread that is executing an append to
\* the failure list holds failed_files_lock, a thread that is executing a
\* method of the byte counter holds the counter's lock, and so no two threads
\* execute an append at the same time.
C23_SharedStateDiscipline ==
    /\ \A t \in Appending : listLock = t
    /\ \A t \in InCounter : ctrLock = t
    /\ Cardinality(Appending) <= 1

-----------------------------------------------------------------------------
(* perform_update: the removal of the deprecated directories *)

\* the directories perform_update removes, in the order of its retry loops
Deprecated ==
    << "F4SE", "FRIK", "High FPS Physics Fix", "XDI", "PrivateProfileRedirector F4",
       "Version Check Patcher", "vcheck_patcher", "Fallout London VR" >>

\* the retry loop whose `except Exception` ends the update (Step 1.9)
FatalRemoval(i) == Deprecated[i] = "Fallout London VR"

\* the steps after the removals: Step 2 to Step 5
LaterSteps == 4

\* what the removal steps leave alone
notRmVars == <<baseVars, lockVars, flagVars, rbVars>>

\* perform_update has backed up the .ini files; some deprecated directories exist
InitRemove ==
    /\ rmPc = "remove" /\ rmIdx = 1
    /\ rmPresent \in SUBSET (1..Len(Deprecated))
    /\ rmDialogs = 0
    /\ rmAsked = [i \in 1..Len(Deprecated) |-> 0]
    /\ rmCancelled = FALSE /\ rmLater = 0
    /\ faults = 0
    /\ CopyIdle /\ PatchIdle /\ Ba2Idle /\ ResIdle /\ WcIdle /\ UpdIdle /\ MlIdle
    /\ LockIdle /\ FlagIdle /\ RbIdle

\* an answer that sends the update on although the user cancelled
AfterAnswerGoOn(retry) == "remove"

\* `if not self.handle_files_in_use(...): return`; else the loop continues
AfterAnswer(retry) == IF retry THEN "remove" ELSE "returned"

\* `if os.path.exists(path):` is false: the loop is not entered
RmSkip ==
    /\ rmPc = "remove" /\ rmIdx <= Len(Deprecated) /\ rmIdx \notin rmPresent
    /\ rmIdx' = rmIdx + 1
    /\ UNCHANGED <<rmPc, rmPresent, rmDialogs, rmAsked, rmCancelled, rmLater, faults,
                   notRmVars>>

\* one turn of `while True: try: shutil.rmtree(path)`: it succeeds, raises
\* PermissionError, or raises another exception
RmAttempt ==
    /\ rmPc = "remove" /\ rmIdx <= Len(Deprecated) /\ rmIdx \in rmPresent
    /\ rmAsked' = [rmAsked EXCEPT ![rmIdx] = @ + 1]
    /\ \/ \* break: success
          /\ rmPresent' = rmPresent \ {rmIdx}
          /\ rmIdx' = rmIdx + 1
          /\ UNCHANGED <<rmPc, faults>>
       \/ \* except PermissionError: the dialog is shown
          /\ rmDialogs < MaxDialogs
          /\ rmPc' = "dialog"
          /\ UNCHANGED <<rmIdx, rmPresent, faults>>
       \/ \* except Exception: break, or the error box and return of Step 1.9
          /\ faults < MaxFaults /\ faults' = faults + 1
          /\ IF FatalRemoval(rmIdx)
             THEN rmPc' = "failed" /\ rmIdx' = rmIdx
             ELSE rmPc' = rmPc /\ rmIdx' = rmIdx + 1
          /\ rmPresent' = rmPresent
    /\ UNCHANGED <<rmDialogs, rmCancelled, rmLater, notRmVars>>

\* handle_files_in_use: messagebox.askretrycancel returns the user's answer
RmAnswer ==
    /\ rmPc = "dialog"
    /\ \E retry \in BOOLEAN :
          /\ rmPc' = AfterAnswer(retry)
          /\ rmCancelled' = ~retry
    /\ rmDialogs' = rmDialogs + 1
    /\ UNCHANGED <<rmIdx, rmPresent, rmAsked, rmLater, faults, notRmVars>>

\* the removals are over: Step 2 to Step 5, one after the other
RmLaterStep ==
    /\ rmPc = "remove" /\ rmIdx > Len(Deprecated) /\ rmLater < LaterSteps
    /\ rmLater' = rmLater + 1
    /\ UNCHANGED <<rmPc, rmIdx, rmPresent, rmDialogs, rmAsked, rmCancelled, faults,
                   notRmVars>>

\* Step 7: "Update completed successfully!"
RmComplete ==
    /\ rmPc = "remove" /\ rmIdx > Len(Deprecated) /\ rmLater = LaterSteps
    /\ rmPc' = "completed"
    /\ UNCHANGED <<rmIdx, rmPresent, rmDialogs, rmAsked, rmCancelled, rmLater, faults,
                   notRmVars>>

NextRemove == RmSkip \/ RmAttempt \/ RmAnswer \/ RmLaterStep \/ RmComplete

\* the removal steps of perform_update
SpecRemove == InitRemove /\ [][NextRemove]_vars

\* C24: a removal that fails with a permission error opens the
\* retry-or-cancel dialog; while the dialog is open nothing else happens; the
\* step that answers it either goes back to the removal of the same directory
\* (retry), no later step having run, or ends perform_update (cancel); and
\* once the user has cancelled, perform_update has returned, no later step
\* has run and the update never reports completion.
C24_UpdateRetryLoop ==
    /\ [](rmCancelled => rmPc = "returned" /\ rmLater = 0)
    /\ [][/\ (rmAsked' # rmAsked /\ rmIdx \in rmPresent' /\ faults' = faults)
                => rmPc' = "dialog"
          /\ rmPc = "dialog" =>
                /\ rmLater' = rmLater /\ rmPresent' = rmPresent /\ rmAsked' = rmAsked
                /\ \/ /\ ~rmCancelled' /\ rmPc' = "remove" /\ rmIdx' = rmIdx
                      /\ rmIdx \in rmPresent /\ rmLater = 0
                   \/ rmCancelled' /\ rmPc' = "returned"]_vars

\* a removal failed with a permission error, the user answered 'Retry', and
\* the same directory was then removed at the second attempt; the update has
\* reported completion
C24_Witness ==
    /\ rmPc = "completed" /\ rmDialogs >= 1 /\ ~rmCancelled
    /\ \E i \in 1..Len(Deprecated) : rmAsked[i] = 2 /\ i \notin rmPresent

-----------------------------------------------------------------------------
(* A fresh install: the DLC check, then Steps 7 to 12 of perform_installation *)

\* expected_esm_sizes of copy_fallout_data_with_smart_dlc
ExpectedEsmSizes == {StandardSize, PatchSizeA, 330552064, PatchSizeB}
\* size_tolerance
SizeTolerance == 1000

\* abs(esm_size - expected_size) <= size_tolerance for one expected size
EsmSizeAccepted(size) ==
    \E e \in ExpectedEsmSizes : size - e <= SizeTolerance /\ e - size <= SizeTolerance

\* an archive of a DLC with the version field v
DlcArchive(k, v) ==
    [name |-> ArchiveNames[k], bytes |-> ArchiveBytes(MagicBTDX, v), readable |-> TRUE]

\* the DLC archives the resolver can have chosen: old-gen or next-gen
InstallDlcDirs ==
    { <<DlcArchive(1, v)>> : v \in {<<1, 0, 0, 0>>, <<8, 0, 0, 0>>} }
    \cup { <<DlcArchive(1, v), DlcArchive(2, <<8, 0, 0, 0>>)>> :
              v \in {<<1, 0, 0, 0>>, <<8, 0, 0, 0>>} }

\* any(d["is_next_gen"] for d in dlc_info.values() if d["found_in"])
AnyNextGen(dir) == \E i \in 1..Len(dir) : IsNextGen(FromFile(dir[i]))

\* the subsequence of dir without the files in gone
RECURSIVE Without(_, _, _)
Without(dir, gone, i) ==
    IF i > Len(dir) THEN <<>>
    ELSE (IF i \in gone THEN <<>> ELSE <<dir[i]>>) \o Without(dir, gone, i + 1)

wfPatchFrame == <<patchPc, backup, temp, tempSize, tempBound, assetOk, toolOk, toolExit,
                  restoreIn, patchResult>>

\* the installer window is open, the paths are chosen, nothing is installed
InitInstall ==
    /\ variant = "exclusions"
    /\ srcDir = PlainSrcDir
    /\ srcTree = FlatTree([i \in 1..MaxConcFiles |-> 1])
    /\ excludeDirs = DefaultExcludeDirs
    /\ excludeFiles = <<>>
    /\ maxWorkers = 2
    /\ cancel = FALSE /\ copyPc = "idle" /\ manifest = <<>> /\ nextTask = 1
    /\ wk = [w \in 1..maxWorkers |-> Idle]
    /\ fut = [i \in Ids |-> "none"]
    /\ doneQ = <<>>
    /\ dest = [i \in Ids |-> -1]
    /\ counter = 0 /\ failed = <<>> /\ filesCopied = 0 /\ completedCount = 0
    /\ uiLast = -1 /\ outcome = "none" /\ faults = 0
    /\ errKind = [i \in Ids |-> "none"]
    /\ tries = [i \in Ids |-> 0]
    /\ patchPc = "idle" /\ esm = "absent" /\ esmSize = 0 /\ backup = "absent"
    /\ temp = "absent" /\ tempSize = 0 /\ tempBound = FALSE /\ assetOk = TRUE
    /\ toolOk = TRUE /\ toolExit = "none" /\ restoreIn = "none"
    /\ patchResult = "none" /\ instPc = "check"
    /\ srcEsmSize \in {PatchSizeA, StandardSize, SanityFloor}
    /\ dlcSrc \in InstallDlcDirs
    /\ needsDowngrade = FALSE
    /\ Ba2Idle /\ ResIdle /\ WcIdle /\ UpdIdle /\ MlIdle /\ LockIdle /\ RmIdle /\ RbIdle

\* check_dlc_status_independent with no DLC missing: the flag is assigned only
\* in the branch where Fallout4.esm needs no patch
WfCheck ==
    /\ instPc = "check"
    /\ instPc' = "step7"
    /\ needsDowngrade' = IF InPatchTable(srcEsmSize) THEN needsDowngrade
                         ELSE AnyNextGen(dlcSrc)
    /\ UNCHANGED <<srcEsmSize, dlcSrc, esm, esmSize, wfPatchFrame, copyVars, faults,
                   dgVars, resVars, wcVars, updVars, mlVars, retryVars, lockVars, rmVars,
                   rbVars>>

\* Step 7, Step 1: copy_directory_with_file_exclusions is called
WfTreeCopy ==
    /\ instPc = "step7"
    /\ instPc' = "tree" /\ CopyFresh
    /\ UNCHANGED <<variant, srcDir, srcTree, excludeDirs, excludeFiles, maxWorkers,
                   cancel, dest, faults, esm, esmSize, wfPatchFrame, apartVars>>

\* the copier has ended: its result is not looked at, its exception reaches
\* the `except Exception: ... raise` of Step 7
WfTreeEnded ==
    /\ instPc = "tree" /\ CopyEnded
    /\ instPc' = IF copyPc = "returned" THEN "esm" ELSE "failed"
    /\ UNCHANGED <<esm, esmSize, wfPatchFrame, copyVars, faults, otherVars>>

\* Step 7, Step 2: shutil.copy2 of the Fallout4.esm whose size is accepted;
\* without a copy FileNotFoundError is raised
WfEsmCopy ==
    /\ instPc = "esm"
    /\ \/ /\ EsmSizeAccepted(srcEsmSize)
          /\ esm' = "orig" /\ esmSize' = srcEsmSize /\ instPc' = "dlc"
          /\ faults' = faults
       \/ /\ ~EsmSizeAccepted(srcEsmSize)
          /\ instPc' = "failed" /\ UNCHANGED <<esm, esmSize, faults>>
       \/ /\ EsmSizeAccepted(srcEsmSize) /\ faults < MaxFaults
          /\ faults' = faults + 1
          /\ instPc' = "failed" /\ UNCHANGED <<esm, esmSize>>
    /\ UNCHANGED <<wfPatchFrame, copyVars, otherVars>>

\* Step 7, Step 3: copy_best_dlc_files, a failed shutil.copy2 is only logged;
\* then Step 4 calls the patcher
WfDlcCopy ==
    /\ instPc = "dlc"
    /\ \E gone \in SUBSET (1..Len(dlcSrc)) :
          /\ Cardinality(gone) <= MaxFaults - faults
          /\ faults' = faults + Cardinality(gone)
          /\ ba2Dir' = Without(dlcSrc, gone, 1)
          /\ hdrSeen' = [i \in 1..(Len(dlcSrc) - Cardinality(gone)) |->
                            [read |-> FALSE, hdr |-> NoHeader]]
    /\ instPc' = "patching" /\ patchPc' = "entry"
    /\ UNCHANGED <<esm, esmSize, backup, temp, tempSize, tempBound, assetOk, toolOk,
                   toolExit, restoreIn, patchResult, copyVars,
                   dgPc, dgRun, dgNeed, dgPos, dgCount, dgByDlc, dgResults, dgSnap,
                   dgWritten, dgWriteFailed,
                   resVars, wcVars, updVars, mlVars, retryVars, extraVars>>

\* Step 11: `if self.needs_downgrade: self.perform_downgrade_step()`
DowngradeCalled ==
    /\ instPc = "step11" /\ needsDowngrade
    /\ instPc' = "downgrade"
    /\ UNCHANGED <<esm, esmSize, wfPatchFrame, copyVars, faults, otherVars>>

\* perform_downgrade_step has returned; Step 12 reports completion
DowngradeReturned ==
    /\ instPc = "downgrade" /\ dgPc = "done"
    /\ instPc' = "completed"
    /\ UNCHANGED <<esm, esmSize, wfPatchFrame, copyVars, faults, otherVars>>

NextInstall ==
    \/ WfCheck
    \/ WfTreeCopy
    \/ NextParallel
    \/ WfTreeEnded
    \/ WfEsmCopy
    \/ WfDlcCopy
    \/ NextPatch
    \/ DowngradeCalled
    \/ (instPc = "downgrade" /\ dgRun = 0 /\ DgStart)
    \/ DgFile
    \/ DgFinish
    \/ DowngradeReturned

\* a fresh install from the DLC check to its end
SpecInstall == InitInstall /\ [][NextInstall]_vars

\* the stages of the install at which files are copied into the data directory
CopyStages == {"step7", "tree", "esm", "dlc"}
\* the patcher of Fallout4.esm is between its call and its return
PatcherRuns == patchPc \notin {"idle", "ended"}
\* the rewrite of the archive versions is between its call and its return
NormalizerRuns == instPc = "downgrade" /\ dgPc # "done"
\* a pool thread of the tree copier is inside a task
WorkerBusy == \E w \in 1..maxWorkers : wk[w].st # "idle"

\* C25: in a fresh install, while the patch of Fallout4.esm or the rewrite of
\* the archive versions runs on 'Fallout London Data', the tree copy into that
\* directory has returned with every one of its tasks ended and no pool thread
\* inside a task, the copies of Fallout4.esm and of the DLC files are over,
\* and no copy stage is entered from there on.
C25_ExclusiveAccessOrdering ==
    /\ []((PatcherRuns \/ NormalizerRuns) =>
             /\ copyPc = "returned" /\ ~WorkerBusy
             /\ \A i \in 1..Len(manifest) : TaskEnded(manifest[i])
             /\ completedCount = Len(manifest)
             /\ instPc \notin CopyStages)
    /\ [][(PatcherRuns \/ NormalizerRuns) =>
              instPc' \notin CopyStages /\ copyPc' = copyPc /\ wk' = wk /\ dest' = dest]_vars

C25_Witness ==
    /\ NormalizerRuns /\ dgPc = "loop" /\ patchResult # "none"
    /\ Len(manifest) = MaxConcFiles /\ filesCopied >= 1

\* C28: whenever the installation reports completion, no DLC archive of the
\* data directory holds the version code 7 or 8.
C28_NoIncompatibleArchive ==
    instPc = "completed" => \A i \in 1..Len(ba2Dir) : ~CodeIsNextGen(ba2Dir[i])

-----------------------------------------------------------------------------
(* Properties of the tree copiers, continued *)

\* the walk would reach file id if no file name were excluded
Reached(id) ==
    /\ ~Pruned(srcTree[id].dir, LowerAll(excludeDirs))
    /\ ~RootSkipped(RootOf(id), LowerAll(excludeDirs))

\* C26: a parallel tree copy skips every file whose name equals an excluded
\* file name when letter case is ignored: such a file is never a task and
\* never reaches the destination; and it skips only such files: once the walk
\* is over without an unreadable file, every file the walk reaches whose name
\* is no excluded name is a task.
C26_FileNameExclusion ==
    Parallel =>
        /\ \A id \in Ids :
              HasExcludedName(id) => ~InList(id, manifest) /\ dest[id] = -1
        /\ (copyPc # "call" /\ faults = 0) =>
              \A id \in Ids :
                 (Reached(id) /\ ~HasExcludedName(id)) => InList(id, manifest)

-----------------------------------------------------------------------------
(* Properties of the mod-list merge, continued *)

\* x comes before y in list, by first occurrence
Before(list, x, y) == IndexOf(list, x) < IndexOf(list, y)

\* the mods of the user's former list, of the update's list and of the result
UserMods == ModsOf(ReadLines(userOrig))
UpdateMods == ModsOf(ReadLines(sourceText))
MergedMods == ModsOf(ReadLines(userText))

\* named by both lists / named by the update's list only
SharedMod(x) == InList(x, UserMods) /\ InList(x, UpdateMods)
InsertedMod(x) == InList(x, UpdateMods) /\ ~InList(x, UserMods)
ModNames == { UpdateMods[i] : i \in 1..Len(UpdateMods) }

\* the shared mods appear in the same relative order in both lists
SharedOrderAgrees ==
    \A x \in ModNames : \A y \in ModNames :
        (SharedMod(x) /\ SharedMod(y) /\ x # y)
            => (Before(UserMods, x, y) <=> Before(UpdateMods, x, y))

\* C27: after a merge into an existing list whose shared mods are in the
\* same relative order as in the update's list, every inserted mod stands on
\* the same side of every shared mod in the result as in the update's list.
C27_MergeInsertionPosition ==
    (mlPc = "done" /\ userOrig # <<>> /\ SharedOrderAgrees) =>
        \A n \in ModNames : \A x \in ModNames :
            (InsertedMod(n) /\ SharedMod(x)) =>
                /\ InList(n, MergedMods) /\ InList(x, MergedMods)
                /\ Before(MergedMods, n, x) <=> Before(UpdateMods, n, x)

-----------------------------------------------------------------------------
(* Properties of the resolver, continued *)

\* the directory contains the group: its metadata file and at least one of
\* its archives
GroupIn(dir, entry) == HoldsEsm(dir, entry) /\ ArchivesOf(dir, entry) # {}

\* the scanned directories that contain group g
Holders(g) == { d \in 1..Len(scanDirs) : GroupIn(scanDirs[d], DlcCatalog[g]) }

\* C29: when all directories are scanned, a group that some directory
\* contains is resolved to a version-incompatible source if and only if every
\* scanned directory that contains it is version-incompatible, in whatever
\* order the directories were scanned.
C29_ResolverOrderIndependent ==
    scanPos > Len(scanDirs) =>
        \A g \in 1..Len(DlcCatalog) :
            Holders(g) # {} =>
                ((dlcInfo[g].found_in # "None" /\ dlcInfo[g].is_next_gen = "True")
                    <=> \A d \in Holders(g) : Incompatible(scanDirs[d], DlcCatalog[g]))

-----------------------------------------------------------------------------
(* copy_directory_with_robocopy of robocopy_methods.py and its fallback,    *)
(* the sequential copier                                                    *)

notRbVars == <<patchVars, dgVars, resVars, wcVars, updVars, mlVars, lockVars, rmVars,
               flagVars>>
rbCopyFixed == <<variant, srcDir, srcTree, excludeDirs, excludeFiles, maxWorkers, dest>>
rbCopyLocals == <<copyPc, manifest, nextTask, wk, fut, doneQ, counter, failed,
                  filesCopied, completedCount, uiLast, outcome, retryVars>>

\* copy_directory_with_robocopy is about to be called on a source tree
InitRobocopy ==
    /\ variant = "sequential"
    /\ srcDir = PlainSrcDir
    /\ srcTree \in Trees
    /\ excludeDirs = DefaultExcludeDirs
    /\ excludeFiles = <<>>
    /\ maxWorkers = 1
    /\ cancel = FALSE /\ copyPc = "idle" /\ manifest = <<>> /\ nextTask = 1
    /\ wk = [w \in 1..maxWorkers |-> Idle]
    /\ fut = [i \in Ids |-> "none"]
    /\ doneQ = <<>>
    /\ dest = [i \in Ids |-> -1]
    /\ counter = 0 /\ failed = <<>> /\ filesCopied = 0 /\ completedCount = 0
    /\ uiLast = -1 /\ outcome = "none" /\ faults = 0
    /\ errKind = [i \in Ids |-> "none"]
    /\ tries = [i \in Ids |-> 0]
    /\ rbPc = "call" /\ rbProc = "none" /\ rbSeen = FALSE /\ rbLines = 0
    /\ PatchIdle /\ Ba2Idle /\ ResIdle /\ WcIdle /\ UpdIdle /\ MlIdle
    /\ LockIdle /\ RmIdle /\ FlagIdle

\* `except Exception as e:` of copy_directory_with_robocopy: the fallback
\* copy_directory_with_progress_python is called
ToFallback == rbPc' = "fallback" /\ CopyFresh

\* what the method does with the InterruptedError it raises on cancel
OnInterrupt == ToFallback

\* get_directory_size, then subprocess.Popen(cmd, ...), which may raise
RbStart ==
    /\ rbPc = "call"
    /\ \/ /\ rbPc' = "reading" /\ rbProc' = "running" /\ faults' = faults
          /\ UNCHANGED rbCopyLocals
       \/ /\ faults < MaxFaults /\ faults' = faults + 1
          /\ ToFallback /\ rbProc' = rbProc
    /\ UNCHANGED <<rbSeen, rbLines, cancel, rbCopyFixed, notRbVars>>

\* one turn of `for line in process.stdout`: the flag is tested first
RbLine ==
    /\ rbPc = "reading" /\ rbLines < MaxLines
    /\ rbLines' = rbLines + 1
    /\ IF cancel
       THEN /\ rbProc' = "terminated" /\ rbSeen' = TRUE
            /\ OnInterrupt
       ELSE UNCHANGED <<rbPc, rbProc, rbSeen, rbCopyLocals>>
    /\ UNCHANGED <<cancel, faults, rbCopyFixed, notRbVars>>

\* the output has ended: process.wait() and `if return_code >= 8: raise`
RbWait ==
    /\ rbPc = "reading"
    /\ rbProc' = "exited"
    /\ \E failedCode \in BOOLEAN :
          IF failedCode
          THEN /\ faults < MaxFaults /\ faults' = faults + 1 /\ ToFallback
          ELSE /\ rbPc' = "returned" /\ faults' = faults /\ UNCHANGED rbCopyLocals
    /\ UNCHANGED <<rbSeen, rbLines, cancel, rbCopyFixed, notRbVars>>

\* the user asks to cancel while robocopy runs
RbCancel ==
    /\ rbPc = "reading" /\ ~cancel
    /\ cancel' = TRUE
    /\ UNCHANGED <<rbVars, faults, rbCopyFixed, rbCopyLocals, notRbVars>>

\* the fallback has ended: its return ends the call, its exception leaves
\* the except block
RbFallbackEnded ==
    /\ rbPc = "fallback" /\ CopyEnded
    /\ rbPc' = IF copyPc = "returned" THEN "returned" ELSE "raised"
    /\ UNCHANGED <<rbProc, rbSeen, rbLines, cancel, faults, rbCopyFixed, rbCopyLocals,
                   notRbVars>>

NextRobocopy ==
    \/ RbStart
    \/ RbLine
    \/ RbWait
    \/ RbCancel
    \/ NextSequential
    \/ SetCancel
    \/ RbFallbackEnded

\* calls of copy_directory_with_robocopy
SpecRobocopy == InitRobocopy /\ [][NextRobocopy]_vars

\* the call has ended
RbEnded == rbPc \in {"returned", "raised"}

\* C30: once the cancel flag has been seen while the output of robocopy was
\* read, the robocopy process is terminated, the fallback copier writes no
\* file, and the call ends by raising InterruptedError.
C30_RobocopyCancel ==
    rbSeen =>
        /\ rbProc = "terminated"
        /\ \A id \in Ids : dest[id] = -1
        /\ RbEnded => (rbPc = "raised" /\ outcome = "interrupted")

====
